---- MODULE Spec2Model ----
(***************************************************************************)
(* State-machine model of dolly-carton (agrc/dolly-carton):                *)
(*   - utils.retry                       (specification SpecRetry)         *)
(*   - internal.determine_updated_tables (specification SpecDet)           *)
(*   - agol.update_feature_services with agol._truncate_and_append,        *)
(*     state.set_table_hash and summary.ProcessSummary (specification Spec;*)
(*     SpecLive: the same call under weak fairness of its steps)           *)
(*   - agol._truncate_and_append on one service (SpecTa)                   *)
(*   - agol.publish_new_feature_services (SpecPub; SpecBatch: either loop) *)
(*   - internal.get_agol_items_lookup (SpecLook), internal.create_fgdb     *)
(*     (SpecFgdb), internal._get_geometry_option with                      *)
(*     agol._get_appropriate_service_layer (SpecGeom)                      *)
(*   - main.main (SpecMain)                                                *)
(*   - domains.apply_domains_to_fields (SpecApply), the domain parsers     *)
(*     (SpecParse), domains.create_coded_value_domain (SpecCoded)          *)
(*   - ProcessSummary.add_table_updated / add_table_published (SpecSum)    *)
(* Every specification assigns all variables; the variables of the other   *)
(* parts stay at their initial (idle) values.                              *)
(***************************************************************************)
EXTENDS Integers, Sequences, FiniteSets, TLC

VARIABLES
    \* ---- utils.retry (one call of retry) ----
    r_pc,          \* "idle" | "call" (about to invoke worker_method) | "done"
    tries,         \* nonlocal `tries` of retry (utils.py:40)
    calls,         \* number of invocations of worker_method so far
    raised,        \* exceptions raised by worker_method, in order; one per frame of _inner_retry
    sleeps,        \* arguments passed to sleep(), in order
    r_out,         \* outcome of retry: NoOutcome | [ret |-> v] | [exc |-> e]
    \* ---- internal.determine_updated_tables ----
    d_pc,          \* "idle" | "call" | "done"
    d_stored,      \* stored_hashes: dict as a function on its key set
    d_current,     \* current_hashes: dict as a function on its key set
    d_order,       \* insertion order of current_hashes (iteration order of .items())
    d_updated,     \* returned list
    \* ---- agol.update_feature_services (one call) ----
    pc,            \* "idle" | "loop" | "truncate" | "append" | "verify" | "done" | "raised"
    env,           \* APP_ENVIRONMENT
    firestore,     \* table_hashes map of the Firestore state document
    stored0,       \* table_hashes as read at the start of the run (get_table_hashes)
    current_hashes,\* argument current_hashes
    tables,        \* argument tables
    idx,           \* position of the for loop in tables (1-based)
    has_errors,    \* local has_errors
    summary,       \* the ProcessSummary of the run
    hash_calls,    \* calls of set_table_hash made so far: <<table, hash>>
    fate,          \* what happened to each table of the batch so far:
                   \* [kind, post (post_append_count), src (source_counts.get(table, -1))]
    gdb,           \* the uploaded temporary FGDB item: delete called? still exists?
    remote,        \* rows of the service layer being updated: [old, new]
    pkg_count,     \* rows of the package layer appended to that service
    truncate_calls,\* calls of service_item.manager.truncate on the current service
    append_calls,  \* calls of service_item.append on the current service
    append_result, \* local append_result of the latest attempt of _worker (kept
                   \* until the next attempt starts)
    truncate_status,\* status the latest truncate of the running _truncate_and_append
                   \* reported ("none" before the first one, "raises" for an exception)
    pre_truncate_count, \* local pre_truncate_count, with whether the count query
                   \* behind it failed, from its assignment until the first
                   \* truncate of the iteration (only agol.py:424-427 reads it)
    partial,       \* while _truncate_and_append runs: some failed attempt of this
                   \* call left appended rows on the service
    \* ---- agol.publish_new_feature_services (one call) ----
    p_pc,          \* "idle" | "loop" | "configure" | "record" | "done" | "raised"
    p_tables,      \* argument tables
    p_idx,         \* position of the for loop in tables (1-based)
    p_fate,        \* what happened to each table of the list so far
    p_calls,       \* remote calls made for the table being published, in order
    registry,      \* AGOL_ITEM_ID column of SGID.META.AGOLItems, per table
    agol_calls,    \* calls of update_agol_item made so far: <<table, item_id>>
    \* ---- internal.get_agol_items_lookup (one call) ----
    l_pc,          \* "idle" | "call" | "done"
    l_env,         \* internal.APP_ENVIRONMENT
    l_rows,        \* rows of SGID.META.AGOLItems as fetched, in order
    l_lookup,      \* returned dict
    \* ---- internal.create_fgdb (one call) ----
    f_pc,          \* "idle" | "start" | "loop" | "check" | "domains" | "done" | "raised"
    f_tables,      \* argument tables
    f_idx,         \* position of the copy loop in tables (1-based)
    f_counts,      \* local source_counts
    f_copied,      \* local tables_copied
    f_log,         \* per loop iteration so far: what the count and the copy did
    f_dom,         \* what the domain step did
    f_out,         \* outcome of create_fgdb: NoOutcome | [ret |-> ...] | [exc |-> ...]
    \* ---- main.main (one run of the process) ----
    m_pc,          \* "idle" | "start" | "lookup" | "update" | "publish" | "returned" | "raised"
    m_env,         \* main.APP_ENVIRONMENT
    m_updated,     \* local updated_tables
    m_lookup,      \* local agol_items_lookup: item_id per table (None: no service yet)
    m_calls,       \* functions called by main so far, in order
    m_exc,         \* the call whose exception ended the run, or NoException
    \* ---- domains.apply_domains_to_fields (one call) ----
    a_pc,          \* "idle" | "start" | "loop" | "done"
    a_map,         \* argument table_field_domains, in iteration order:
                   \* [layer, fields (field name -> domain name)]
    a_domains,     \* field domains present in the FGDB
    a_idx,         \* position of the loop over table_field_domains (1-based)
    a_success,     \* local success_count
    a_total,       \* local total_associations
    a_log,         \* per layer visited: [layer, lookup, outcome per field]
    a_out,         \* outcome: NoOutcome | [ret |-> BOOLEAN]
    \* ---- domains.parse_coded_value_domain / parse_range_domain (one call) ----
    x_pc,          \* "idle" | "call" | "done"
    x_kind,        \* "coded_value" | "range": which parser is called
    x_root,        \* argument root: its child elements by tag
    x_out,         \* returned domain_info, or NoOutcome
    \* ---- domains.create_coded_value_domain (one call) ----
    v_pc,          \* "idle" | "call" | "done"
    v_info,        \* argument domain_info: [field_type, coded_values]
    v_passed,      \* arguments given to ogr.CreateCodedFieldDomain, or NoOutcome
    v_out,         \* outcome: NoOutcome | [ret |-> BOOLEAN]
    \* ---- internal._get_geometry_option (one call) ----
    g_pc,          \* "idle" | "call" | "done"
    g_type,        \* argument geometry_type, a str as the sequence of its characters
    g_out,         \* outcome: NoOutcome | [ret |-> option] | [exc |-> "ValueError"]
    g_layer,       \* what _get_appropriate_service_layer opened for the same
                   \* classification: "none" | "Table" | "FeatureLayer"
    \* ---- summary.ProcessSummary under a sequence of add_table_* calls ----
    s_pc,          \* "idle" | "run"
    s_sum,         \* the ProcessSummary
    s_first,       \* per list: the item id given when a table was first added
    s_last,        \* the last call: was the table already listed, and the summary before it
    s_n,           \* number of calls made
    \* ---- agol._truncate_and_append (one call, on one service) ----
    t_pc,          \* "idle" | "truncate" | "append" | "returned" | "raised"
    t_tries,       \* nonlocal `tries` of retry(_worker)
    t_before,      \* rows the service held when _truncate_and_append was called
    t_rows,        \* rows the service holds: [old, new]
    t_pkg          \* rows of the package layer that is appended

retryVars == <<r_pc, calls, raised, r_out>>
unitVars  == <<tries, sleeps>>
detVars   == <<d_pc, d_stored, d_current, d_order, d_updated>>
updVars   == <<pc, env, firestore, stored0, current_hashes, tables, idx, has_errors,
               summary, hash_calls, fate, gdb, remote, pkg_count, truncate_calls,
               append_calls, append_result, partial, truncate_status, pre_truncate_count>>
pubVars   == <<p_pc, p_tables, p_idx, p_fate, p_calls, registry, agol_calls>>
lookVars  == <<l_pc, l_env, l_rows, l_lookup>>
fgdbVars  == <<f_pc, f_tables, f_idx, f_counts, f_copied, f_log, f_dom, f_out>>
mainVars  == <<m_pc, m_env, m_updated, m_lookup, m_calls, m_exc>>
applyVars == <<a_pc, a_map, a_domains, a_idx, a_success, a_total, a_log, a_out>>
parseVars == <<x_pc, x_kind, x_root, x_out>>
codedVars == <<v_pc, v_info, v_passed, v_out>>
geomVars  == <<g_pc, g_type, g_out, g_layer>>
sumVars   == <<s_pc, s_sum, s_first, s_last, s_n>>
taVars    == <<t_pc, t_tries, t_before, t_rows, t_pkg>>
vars      == <<retryVars, unitVars, detVars, updVars, pubVars, lookVars, fgdbVars, mainVars, applyVars, parseVars, codedVars, geomVars, sumVars, taVars>>

\* ---------------------------------------------------------------------------
\* Program constants
\* ---------------------------------------------------------------------------
RETRY_MAX_TRIES == 3
RETRY_DELAY_TIME == 2

\* ---------------------------------------------------------------------------
\* Bounds and value universes
\* ---------------------------------------------------------------------------
\* number of distinct values a worker may return in SpecRetry
MaxRetVal == 2
\* number of distinct fingerprint strings
MaxHash == 2

NoOutcome == [none |-> TRUE]
\* Exception subclasses a worker raises (caught by `except Exception`)
ExcKinds == {"Exception", "ValueError", "RuntimeError"}
RetVals == 1..MaxRetVal
TableNames == {"a", "b", "c"}
Hashes == 1..MaxHash

Min(x, y) == IF x <= y THEN x ELSE y

\* ---------------------------------------------------------------------------
\* utils.retry
\* ---------------------------------------------------------------------------
\* utils.py:53  `if tries <= max_tries`
RetryMayRetry_OffByOne(t) == t < RETRY_MAX_TRIES
RetryMayRetry(t) == t <= RETRY_MAX_TRIES

\* utils.py:54  `wait_time = delay**tries`
WaitTime_Linear(t) == RETRY_DELAY_TIME * t
WaitTime(t) == RETRY_DELAY_TIME ^ t

\* utils.py:64-66: the exception leaving the innermost frame of _inner_retry
\* (`raise error`) passes through the enclosing frames, which are inside their
\* `except` blocks at `return _inner_retry(...)` and do not catch it again.
\* frames = the errors bound in the enclosing frames, outermost first.
Propagate_Outermost(frames, error) == IF frames = <<>> THEN error ELSE frames[1]
Propagate(frames, error) == error

\* An exception raised by the worker on its n-th invocation: kind and message
\* (the message identifies the attempt, as "Failure <n>" in the unit tests).
Exc(kind, n) == [kind |-> kind, msg |-> n]

\* utils.py:40-42: state of retry when _inner_retry is first entered
RetryInit ==
    /\ r_pc = "call"
    /\ tries = 1
    /\ calls = 0
    /\ raised = <<>>
    /\ sleeps = <<>>
    /\ r_out = NoOutcome

\* no generic retry call in progress
RetryIdle ==
    /\ r_pc = "idle"
    /\ calls = 0
    /\ raised = <<>>
    /\ r_out = NoOutcome

\* utils.py:48-49: worker_method returns; its value is returned through all frames
InnerRetryReturns ==
    /\ r_pc = "call"
    /\ \E v \in RetVals :
        /\ calls' = calls + 1
        /\ r_out' = [ret |-> v]
        /\ r_pc' = "done"
    /\ UNCHANGED <<tries, raised, sleeps>>
    /\ UNCHANGED <<detVars, updVars, pubVars, lookVars, fgdbVars, mainVars, applyVars, parseVars, codedVars, geomVars, sumVars, taVars>>

\* utils.py:52-64: worker_method raises, tries <= max_tries: sleep, count, recurse
InnerRetryRetries ==
    /\ r_pc = "call"
    /\ RetryMayRetry(tries)
    /\ \E k \in ExcKinds :
        /\ calls' = calls + 1
        /\ raised' = Append(raised, Exc(k, calls + 1))
        /\ sleeps' = Append(sleeps, WaitTime(tries))
        /\ tries' = tries + 1
    /\ UNCHANGED <<r_pc, r_out>>
    /\ UNCHANGED <<detVars, updVars, pubVars, lookVars, fgdbVars, mainVars, applyVars, parseVars, codedVars, geomVars, sumVars, taVars>>

\* utils.py:52-53,65-66: worker_method raises, tries > max_tries: raise error
InnerRetryReraises ==
    /\ r_pc = "call"
    /\ ~RetryMayRetry(tries)
    /\ \E k \in ExcKinds :
        /\ calls' = calls + 1
        /\ raised' = Append(raised, Exc(k, calls + 1))
        /\ r_out' = [exc |-> Propagate(raised, Exc(k, calls + 1))]
        /\ r_pc' = "done"
    /\ UNCHANGED <<tries, sleeps>>
    /\ UNCHANGED <<detVars, updVars, pubVars, lookVars, fgdbVars, mainVars, applyVars, parseVars, codedVars, geomVars, sumVars, taVars>>

\* ---------------------------------------------------------------------------
\* internal.determine_updated_tables
\* ---------------------------------------------------------------------------
\* internal.py:199  `table not in stored_hashes or stored_hashes[table] != hash`
NeedsProcessing_NoNew(stored, table, hash) ==
    table \in DOMAIN stored /\ stored[table] # hash
NeedsProcessing(stored, table, hash) ==
    table \notin DOMAIN stored \/ stored[table] # hash

\* internal.py:197-202: loop over current_hashes.items() in insertion order
\* (order lists the keys of current), appending to `updated`
RECURSIVE DetLoop(_, _, _, _)
DetLoop(stored, current, order, updated) ==
    IF order = <<>> THEN updated
    ELSE DetLoop(stored, current, Tail(order),
                 IF NeedsProcessing(stored, Head(order), current[Head(order)])
                 THEN Append(updated, Head(order))
                 ELSE updated)

determine_updated_tables(stored, current, order) ==
    DetLoop(stored, current, order, <<>>)

\* dicts with keys in TableNames and fingerprint values
Dicts == UNION {[S -> Hashes] : S \in SUBSET TableNames}
\* sequences enumerating the set S once each
OrdersOf(S) ==
    {o \in [1..Cardinality(S) -> S] : \A x, y \in 1..Cardinality(S) : x # y => o[x] # o[y]}

DetIdle ==
    /\ d_pc = "idle"
    /\ d_stored = <<>>
    /\ d_current = <<>>
    /\ d_order = <<>>
    /\ d_updated = <<>>

DetInit ==
    /\ d_pc = "call"
    /\ d_stored \in Dicts
    /\ d_current \in Dicts
    /\ d_order \in OrdersOf(DOMAIN d_current)
    /\ d_updated = <<>>

DetermineUpdatedTables ==
    /\ d_pc = "call"
    /\ d_updated' = determine_updated_tables(d_stored, d_current, d_order)
    /\ d_pc' = "done"
    /\ UNCHANGED <<d_stored, d_current, d_order>>
    /\ UNCHANGED <<retryVars, unitVars, updVars, pubVars, lookVars, fgdbVars, mainVars, applyVars, parseVars, codedVars, geomVars, sumVars, taVars>>

\* ---------------------------------------------------------------------------
\* summary.ProcessSummary
\* ---------------------------------------------------------------------------
SeqToSet(s) == {s[n] : n \in 1..Len(s)}

\* summary.py:28-42: a fresh ProcessSummary (start_summary)
EmptySummary ==
    [tables_updated |-> <<>>, updated_item_ids |-> <<>>,
     tables_published |-> <<>>, published_item_ids |-> <<>>,
     tables_with_errors |-> <<>>,
     update_errors |-> <<>>, publish_errors |-> <<>>,
     feature_count_mismatches |-> <<>>]

\* summary.py:48-57
add_table_updated_Always(S, table, item_id) ==
    [S EXCEPT !.tables_updated = Append(@, table),
              !.updated_item_ids = Append(@, item_id)]
add_table_updated(S, table, item_id) ==
    IF table \notin SeqToSet(S.tables_updated)
    THEN [S EXCEPT !.tables_updated = Append(@, table),
                   !.updated_item_ids = Append(@, item_id)]
    ELSE S

\* summary.py:59-68
add_table_published(S, table, item_id) ==
    IF table \notin SeqToSet(S.tables_published)
    THEN [S EXCEPT !.tables_published = Append(@, table),
                   !.published_item_ids = Append(@, item_id)]
    ELSE S

\* summary.py:70-79: the detail string is kept for the types "update" and
\* "publish" only
add_table_error_DetailOnly(S, table, error_type, error_message) ==
    IF error_type = "update"
    THEN [S EXCEPT !.update_errors = Append(@, <<table, error_message>>)]
    ELSE S
add_table_error(S, table, error_type, error_message) ==
    LET S1 == IF table \notin SeqToSet(S.tables_with_errors)
              THEN [S EXCEPT !.tables_with_errors = Append(@, table)]
              ELSE S
    IN  IF error_type = "update"
        THEN [S1 EXCEPT !.update_errors = Append(@, <<table, error_message>>)]
        ELSE IF error_type = "publish"
        THEN [S1 EXCEPT !.publish_errors = Append(@, <<table, error_message>>)]
        ELSE S1

\* summary.py:85-96 (the two counts of the message are those of the entry of
\* feature_count_mismatches)
add_feature_count_mismatch(S, table, src, final) ==
    add_table_error(
        [S EXCEPT !.feature_count_mismatches = Append(@, <<table, src, final>>)],
        table, "update", "Feature count mismatch")

\* ---------------------------------------------------------------------------
\* state.get_table_hashes / state.set_table_hash
\* ---------------------------------------------------------------------------
Envs == {"dev", "staging", "prod"}
\* state.py:8
GCP_ENVIRONMENTS == {"prod", "staging"}
\* state.py:11-12
is_running_in_gcp(e) == e \in GCP_ENVIRONMENTS

\* state.py:46-68: the stored map is read from Firestore in prod/staging and is
\* empty elsewhere
get_table_hashes(e, doc) == IF is_running_in_gcp(e) THEN doc ELSE <<>>

\* state.py:82-95: merge of one key into table_hashes in prod/staging, log only
\* elsewhere
set_table_hash_Replace(e, doc, table, hash_value) ==
    IF is_running_in_gcp(e)
    THEN [x \in {table} |-> hash_value]
    ELSE doc
set_table_hash(e, doc, table, hash_value) ==
    IF is_running_in_gcp(e)
    THEN [x \in DOMAIN doc \cup {table} |-> IF x = table THEN hash_value ELSE doc[x]]
    ELSE doc

\* ---------------------------------------------------------------------------
\* agol._truncate_and_append and agol.update_feature_services
\* ---------------------------------------------------------------------------
\* largest number of rows of a source table, package layer or service layer
MaxRows == 2
\* tables of one batch (keys of agol_items_lookup with an item id)
BatchNames == {"a", "b"}
\* value of a local that has not been assigned in this iteration
NoCount == -2

\* the fingerprint ChangeDetection reports for a table in this run
CurrentHash == 1
\* fingerprints an earlier run may have stored for a table: the current one or
\* another one (internal.py:199 only tests them for equality)
StoredHashes == {CurrentHash, CurrentHash + 1}
NoRows == [old |-> 0, new |-> 0]
\* local append_result of _worker: unassigned before the append of an attempt
NoResult == [is_tuple |-> FALSE, truthy |-> FALSE, none |-> TRUE]
\* the call of service_item.append raised
AppendRaised == [is_tuple |-> FALSE, truthy |-> FALSE, raises |-> TRUE]
Fate(kind, post, src) == [kind |-> kind, post |-> post, src |-> src]
Pending == Fate("pending", NoCount, NoCount)
\* result of new_item.query(return_count_only=True) on the service
RemoteCount(r) == r.old + r.new

\* agol.py:244-270 _count_features_in_agol_service: what happens inside its
\* try.  Reading properties["type"], Table/FeatureLayer.fromitem or the retried
\* query raise, or the query returns the number of rows of the service.
CountOutcomes(rows) == {[raises |-> TRUE], [count |-> rows]}
CountFailed(o) == "raises" \in DOMAIN o
count_features_in_agol_service_Zero(o) == IF CountFailed(o) THEN 0 ELSE o.count
count_features_in_agol_service(o) == IF CountFailed(o) THEN -1 ELSE o.count
\* agol.py:423 the local pre_truncate_count; unassigned outside an iteration
PreCount(o) == [failed |-> CountFailed(o), value |-> count_features_in_agol_service(o)]
NoPreCount == [failed |-> FALSE, value |-> NoCount]

\* agol.py:470  agol_items_lookup[table]["item_id"]
ItemId(table) == <<"item", table>>

\* agol.py:341-343: _worker starts with the truncate step
WorkerEntry_AppendOnly == "append"
WorkerEntry == "truncate"

\* agol.py:351  truncate_result.get("status") != "Completed" raises
TruncateStatuses == {"Completed", "Failed"}
TruncateCompleted_Any(status) == TRUE
TruncateCompleted(status) == status = "Completed"

\* agol.py:355-361: values service_item.append may return: a bool (or another
\* non-tuple value with that truth value) or a tuple (bool, messages)
AppendResults ==
    {[is_tuple |-> t, first |-> b] : t \in {TRUE}, b \in BOOLEAN}
    \cup {[is_tuple |-> t, truthy |-> b] : t \in {FALSE}, b \in BOOLEAN}
\* bool(x): a non-empty tuple is truthy
Truthy(r) == IF r.is_tuple THEN TRUE ELSE r.truthy
\* agol.py:363-367
AppendSucceeded_Truthy(r) == Truthy(r)
AppendSucceeded(r) == IF r.is_tuple THEN r.first ELSE Truthy(r)

\* agol.py:372  value _worker returns, handed back by retry as `success`
WorkerReturn == TRUE

\* agol.py:445-466: reconciliation of the post-append count with the source count
Reconcile_PositiveSource(S, table, post, src) ==
    IF post >= 0
    THEN IF post = 0 /\ src > 0
         THEN add_table_error(S, table, "zero_features", "0 features after append")
         ELSE IF src >= 0 /\ src # post
              THEN add_feature_count_mismatch(S, table, src, post)
              ELSE S
    ELSE S
Reconcile(S, table, post, src) ==
    IF post >= 0
    THEN IF post = 0
         THEN add_table_error(S, table, "zero_features", "0 features after append")
         ELSE IF src >= 0 /\ src # post
              THEN add_feature_count_mismatch(S, table, src, post)
              ELSE S
    ELSE S

\* agol.py:445-466: the post-append count gives a zero-features or a mismatch
\* finding
HasFinding(post, src) == post = 0 \/ (post > 0 /\ src >= 0 /\ src # post)
\* agol.py:451-466: neither finding branch assigns has_errors
FindingSetsErrors_Yes(found) == found
FindingSetsErrors(found) == FALSE

\* agol.py:482  `if not has_errors`
ShouldDelete_Always(errors) == TRUE
ShouldDelete(errors) == ~errors

BatchSeqs == UNION {OrdersOf(S) : S \in SUBSET BatchNames}

UpdIdle ==
    /\ pc = "idle"
    /\ env = "dev"
    /\ firestore = <<>>
    /\ stored0 = <<>>
    /\ current_hashes = <<>>
    /\ tables = <<>>
    /\ idx = 1
    /\ has_errors = FALSE
    /\ summary = EmptySummary
    /\ hash_calls = <<>>
    /\ fate = [t \in BatchNames |-> Pending]
    /\ gdb = [delete_called |-> FALSE, exists |-> TRUE]
    /\ remote = NoRows
    /\ pkg_count = 0
    /\ truncate_calls = 0
    /\ append_calls = 0
    /\ append_result = NoResult
    /\ partial = FALSE
    /\ truncate_status = "none"
    /\ pre_truncate_count = NoPreCount

UnitIdle ==
    /\ tries = 1
    /\ sleeps = <<>>

\* agol.py:398-402: entry of update_feature_services.  tables lists distinct
\* tables, current_hashes has a fingerprint for each of them; the stored
\* fingerprints are whatever earlier runs left.  Fingerprints are only compared
\* for equality, per table (internal.py:199), so the current fingerprint of
\* every table is CurrentHash and the stored one is absent, equal or different.
UpdInit ==
    /\ pc = "loop"
    /\ env \in Envs
    /\ tables \in BatchSeqs
    /\ current_hashes = [t \in SeqToSet(tables) |-> CurrentHash]
    /\ firestore \in UNION {[S -> StoredHashes] : S \in SUBSET SeqToSet(tables)}
    /\ is_running_in_gcp(env) \/ firestore = <<>>
    /\ stored0 = get_table_hashes(env, firestore)
    /\ idx = 1
    /\ has_errors = FALSE
    /\ summary = EmptySummary
    /\ hash_calls = <<>>
    /\ fate = [t \in BatchNames |-> Pending]
    /\ gdb = [delete_called |-> FALSE, exists |-> TRUE]
    /\ remote = NoRows
    /\ pkg_count = 0
    /\ truncate_calls = 0
    /\ append_calls = 0
    /\ append_result = NoResult
    /\ partial = FALSE
    /\ truncate_status = "none"
    /\ pre_truncate_count = NoPreCount

\* agol.py:473-480: the except branch does not re-raise; the for loop goes on
AfterError_Raise == "raised"
AfterError == "loop"

\* agol.py:473-480: the except branch of the loop body
ExceptBranch(error_message, what) ==
    /\ has_errors' = TRUE
    /\ summary' = add_table_error(summary, tables[idx], "update", error_message)
    /\ fate' = [fate EXCEPT ![tables[idx]] = Fate(what, NoCount, NoCount)]
    /\ idx' = idx + 1
    /\ pc' = AfterError
    /\ pre_truncate_count' = NoPreCount

\* agol.py:403-432: start of one iteration, up to the call of
\* _truncate_and_append.  The service layer of this table holds some rows, and
\* the package holds pkg_count rows for it.
BeginTable ==
    /\ pc = "loop"
    /\ idx <= Len(tables)
    /\ \E outcome \in {"item", "none", "get_raises", "setup_raises"} :
        CASE outcome = "get_raises" ->
                \* agol.py:405 is outside the try: a KeyError of the lookup or
                \* the error retry(content.get) ends with leaves the function
                /\ pc' = "raised"
                /\ fate' = [fate EXCEPT ![tables[idx]] = Fate("get_raised", NoCount, NoCount)]
                /\ UNCHANGED <<idx, has_errors, summary, remote, pkg_count,
                               pre_truncate_count>>
          [] outcome = "none" ->
                \* agol.py:406-412
                /\ has_errors' = TRUE
                /\ summary' = add_table_error(summary, tables[idx], "update",
                                  "No entry in AGOLItems with this table name")
                /\ fate' = [fate EXCEPT ![tables[idx]] = Fate("no_item", NoCount, NoCount)]
                /\ idx' = idx + 1
                /\ pc' = "loop"
                /\ UNCHANGED <<remote, pkg_count, pre_truncate_count>>
          [] outcome = "setup_raises" ->
                \* agol.py:416-431: service layer, published_name or
                \* get_service_from_title raise
                /\ ExceptBranch("setup error", "setup_failed")
                /\ UNCHANGED <<remote, pkg_count>>
          [] outcome = "item" ->
                \* agol.py:423-427 the pre-truncate count never raises; its value
                \* is only logged
                /\ \E r0 \in 0..MaxRows, p \in 0..MaxRows :
                    /\ remote' = [old |-> r0, new |-> 0]
                    /\ pkg_count' = p
                    /\ \E o \in CountOutcomes(r0) : pre_truncate_count' = PreCount(o)
                /\ pc' = WorkerEntry
                /\ UNCHANGED <<idx, has_errors, summary, fate>>
    \* utils.py:40: retry(_worker) starts counting anew; a new service object
    /\ tries' = 1
    /\ sleeps' = <<>>
    /\ truncate_calls' = 0
    /\ append_calls' = 0
    /\ append_result' = NoResult
    /\ partial' = FALSE
    /\ truncate_status' = "none"
    /\ UNCHANGED <<env, firestore, stored0, current_hashes, tables, hash_calls, gdb>>
    /\ UNCHANGED <<retryVars, detVars, pubVars, lookVars, fgdbVars, mainVars, applyVars, parseVars, codedVars, geomVars, sumVars, taVars>>

\* utils.py:52-66 for the worker of _truncate_and_append: the attempt raised
UnitFails(error_message, last_result) ==
    IF RetryMayRetry(tries)
    THEN /\ sleeps' = Append(sleeps, WaitTime(tries))
         /\ tries' = tries + 1
         /\ pc' = WorkerEntry
         /\ append_result' = last_result
         /\ pre_truncate_count' = NoPreCount
         /\ UNCHANGED <<idx, has_errors, summary, fate>>
    ELSE /\ UNCHANGED <<tries, sleeps>>
         /\ append_result' = last_result
         /\ ExceptBranch(error_message, "ta_failed")

\* agol.py:343-352: truncate of one attempt.  The service answers with a status
\* or the call raises; only a truncate that completed has removed every row,
\* any other has removed some rows or none.  The attempt goes on to append when
\* the reported status passes the check of agol.py:351.
Truncate ==
    /\ pc = "truncate"
    /\ truncate_calls' = truncate_calls + 1
    /\ \E status \in TruncateStatuses \cup {"raises"} :
        /\ IF status = "Completed"
           THEN remote' = NoRows
           ELSE \E keep \in {0, remote.old} : remote' = [remote EXCEPT !.old = keep]
        /\ truncate_status' = status
        /\ IF status # "raises" /\ TruncateCompleted(status)
           THEN /\ pc' = "append"
                /\ append_result' = NoResult
                /\ pre_truncate_count' = NoPreCount
                /\ UNCHANGED <<tries, sleeps, idx, has_errors, summary, fate,
                               partial>>
           ELSE /\ partial' = (RetryMayRetry(tries) /\ partial)
                /\ UnitFails("Failed to truncate existing data in service", NoResult)
    /\ UNCHANGED <<env, firestore, stored0, current_hashes, tables, hash_calls, gdb,
                   pkg_count, append_calls>>
    /\ UNCHANGED <<retryVars, detVars, pubVars, lookVars, fgdbVars, mainVars, applyVars, parseVars, codedVars, geomVars, sumVars, taVars>>

\* agol.py:354-372: append of one attempt.  A successful append adds the rows of
\* the package layer; a failed one (raises, or reports failure) has added some
\* of them or none.
AppendData ==
    /\ pc = "append"
    /\ append_calls' = append_calls + 1
    /\ \/ \E res \in AppendResults :
            /\ AppendSucceeded(res)
            /\ append_result' = res
            /\ remote' = [remote EXCEPT !.new = @ + pkg_count]
            /\ pc' = "verify"
            /\ UNCHANGED <<tries, sleeps, idx, has_errors, summary, fate, partial,
                           pre_truncate_count>>
       \/ \E res \in AppendResults \cup {AppendRaised} :
            /\ ~AppendSucceeded(res)
            /\ \E part \in 0..pkg_count :
                  /\ remote' = [remote EXCEPT !.new = @ + part]
                  /\ partial' = (RetryMayRetry(tries) /\ (partial \/ part > 0))
            /\ UnitFails("Append failed", res)
    /\ UNCHANGED <<env, firestore, stored0, current_hashes, tables, hash_calls, gdb,
                   pkg_count, truncate_calls, truncate_status, pre_truncate_count>>
    /\ UNCHANGED <<retryVars, detVars, pubVars, lookVars, fgdbVars, mainVars, applyVars, parseVars, codedVars, geomVars, sumVars, taVars>>

\* agol.py:432-472: _truncate_and_append returned; count, reconcile, record,
\* persist the fingerprint.  src is source_counts.get(table, -1) (agol.py:458):
\* the source count of the table, -1 when create_fgdb could not count it.  set_table_hash may raise in prod/staging (Firestore), which
\* the except branch catches.
Verify ==
    /\ pc = "verify"
    /\ LET table == tables[idx]
           success == WorkerReturn
       IN  IF ~success
           THEN /\ has_errors' = TRUE
                /\ summary' = add_table_error(summary, table, "update",
                                              "Failed to append new data")
                /\ fate' = [fate EXCEPT ![table] = Fate("ta_failed", NoCount, NoCount)]
                /\ UNCHANGED <<hash_calls, firestore>>
           ELSE \E o \in CountOutcomes(RemoteCount(remote)) :
                LET post == count_features_in_agol_service(o) IN
                \E src \in IF post >= 0 THEN -1..MaxRows ELSE {NoCount} :
                LET S2 == add_table_updated(Reconcile(summary, table, post, src),
                                            table, ItemId(table))
                IN  /\ hash_calls' = Append(hash_calls, <<table, current_hashes[table]>>)
                    /\ \/ /\ firestore' = set_table_hash(env, firestore, table,
                                                         current_hashes[table])
                          /\ summary' = S2
                          /\ fate' = [fate EXCEPT ![table] = Fate("updated", post, src)]
                          /\ has_errors' = (has_errors \/ FindingSetsErrors(HasFinding(post, src)))
                       \/ /\ is_running_in_gcp(env)
                          /\ UNCHANGED firestore
                          /\ has_errors' = TRUE
                          /\ summary' = add_table_error(S2, table, "update",
                                                        "state store error")
                          /\ fate' = [fate EXCEPT ![table] = Fate("persist_failed", post, src)]
    /\ idx' = idx + 1
    /\ pc' = "loop"
    /\ partial' = FALSE
    /\ truncate_status' = "none"
    /\ pre_truncate_count' = NoPreCount
    /\ UNCHANGED <<env, stored0, current_hashes, tables, gdb, remote, pkg_count,
                   truncate_calls, append_calls, append_result, tries, sleeps>>
    /\ UNCHANGED <<retryVars, detVars, pubVars, lookVars, fgdbVars, mainVars, applyVars, parseVars, codedVars, geomVars, sumVars, taVars>>

\* agol.py:482-484: after the loop.  retry(gdb_item.delete) deletes the item,
\* returns a false value, or raises when every attempt failed.
Cleanup ==
    /\ pc = "loop"
    /\ idx > Len(tables)
    /\ IF ShouldDelete(has_errors)
       THEN \E result \in {"deleted", "not_deleted", "raises"} :
              /\ gdb' = [delete_called |-> TRUE, exists |-> result # "deleted"]
              /\ pc' = IF result = "raises" THEN "raised" ELSE "done"
       ELSE /\ pc' = "done"
            /\ UNCHANGED gdb
    /\ UNCHANGED <<env, firestore, stored0, current_hashes, tables, idx, has_errors,
                   summary, hash_calls, fate, remote, pkg_count, truncate_calls,
                   append_calls, append_result, partial, truncate_status, pre_truncate_count,
                   tries, sleeps>>
    /\ UNCHANGED <<retryVars, detVars, pubVars, lookVars, fgdbVars, mainVars, applyVars, parseVars, codedVars, geomVars, sumVars, taVars>>

\* ---------------------------------------------------------------------------
\* agol.publish_new_feature_services
\* ---------------------------------------------------------------------------
\* Python None
None == [none |-> TRUE]
\* item.id of the service published for a table
NewItemId(table) == <<"new", table>>

\* agol.py:501-525: the calls of _create_and_publish_service, in order
CreateSteps == <<"create_fgdb", "upload", "publish", "delete_upload">>
\* agol.py:573  `if APP_ENVIRONMENT == "prod"`
IsProd_Always(e) == TRUE
IsProd(e) == e = "prod"
\* agol.py:549-578: the calls of _configure_published_service, in order
ConfigSteps(e) ==
    <<"update", "fromitem", "update_definition", "move">>
    \o (IF IsProd(e) THEN <<"sharing_level", "content_status", "protect">> ELSE <<>>)
Prefix(seq, n) == SubSeq(seq, 1, n)

\* agol.py:612  `if item is None`
CreateFailed_Never(item) == FALSE
CreateFailed(item) == item = None
\* agol.py:621  `if not success`
ConfigureFailed_Never(success) == FALSE
ConfigureFailed(success) == ~success

\* internal.py:271-291: the new item id is written to AGOLItems in prod only
update_agol_item(e, reg, table, item_id) ==
    IF e = "dev" \/ e = "staging" THEN reg ELSE [reg EXCEPT ![table] = item_id]

\* outcome of the three stages for one table: _create_and_publish_service,
\* _configure_published_service, and the recording of agol.py:628-634
PFate(create, configure, record) ==
    [create |-> create, configure |-> configure, record |-> record]
PPending == PFate("pending", "pending", "pending")

\* no call of publish_new_feature_services in progress
PubIdle ==
    /\ p_pc = "idle"
    /\ p_tables = <<>>
    /\ p_idx = 1
    /\ p_fate = [t \in BatchNames |-> PPending]
    /\ p_calls = <<>>
    /\ registry = [t \in BatchNames |-> None]
    /\ agol_calls = <<>>

\* the variables of update_feature_services that publish_new_feature_services
\* does not use
UpdLocalIdle ==
    /\ pc = "idle"
    /\ stored0 = <<>>
    /\ tables = <<>>
    /\ idx = 1
    /\ has_errors = FALSE
    /\ fate = [t \in BatchNames |-> Pending]
    /\ gdb = [delete_called |-> FALSE, exists |-> TRUE]
    /\ remote = NoRows
    /\ pkg_count = 0
    /\ truncate_calls = 0
    /\ append_calls = 0
    /\ append_result = NoResult
    /\ partial = FALSE
    /\ truncate_status = "none"
    /\ pre_truncate_count = NoPreCount

\* agol.py:603-607: entry of publish_new_feature_services with a GIS connection:
\* tables are distinct tables without an item id in the registry, each with a
\* current fingerprint; the state store holds what earlier runs left.
PubInit ==
    /\ p_pc = "loop"
    /\ env \in Envs
    /\ p_tables \in BatchSeqs
    /\ current_hashes = [t \in SeqToSet(p_tables) |-> CurrentHash]
    /\ firestore \in UNION {[S -> StoredHashes] : S \in SUBSET SeqToSet(p_tables)}
    /\ is_running_in_gcp(env) \/ firestore = <<>>
    /\ summary = EmptySummary
    /\ hash_calls = <<>>
    /\ p_idx = 1
    /\ p_fate = [t \in BatchNames |-> PPending]
    /\ p_calls = <<>>
    /\ registry = [t \in BatchNames |-> None]
    /\ agol_calls = <<>>

\* agol.py:611-617 with 487-532: _create_and_publish_service makes its calls in
\* order until one raises (it then returns None) or all returned (it returns
\* the published item)
PublishCreate ==
    /\ p_pc = "loop"
    /\ p_idx <= Len(p_tables)
    /\ \E n \in 1..Len(CreateSteps), raises \in BOOLEAN :
        /\ ~raises => n = Len(CreateSteps)
        /\ p_calls' = Prefix(CreateSteps, n)
        /\ LET table == p_tables[p_idx]
               item == IF raises THEN None ELSE NewItemId(table)
           IN  IF CreateFailed(item)
               THEN /\ summary' = add_table_error(summary, table, "publish",
                                      "Failed to create and publish service")
                    /\ p_idx' = p_idx + 1
                    /\ p_pc' = "loop"
               ELSE /\ p_pc' = "configure"
                    /\ UNCHANGED <<summary, p_idx>>
        /\ p_fate' = [p_fate EXCEPT ![p_tables[p_idx]].create =
                          IF raises THEN "failed" ELSE "ok"]
    /\ UNCHANGED <<p_tables, registry, agol_calls>>
    /\ UNCHANGED <<env, firestore, current_hashes, hash_calls>>
    /\ UNCHANGED <<pc, stored0, tables, idx, has_errors, fate, gdb, remote, pkg_count,
                   truncate_calls, append_calls, append_result, partial, truncate_status, pre_truncate_count>>
    /\ UNCHANGED <<retryVars, unitVars, detVars, lookVars, fgdbVars, mainVars, applyVars, parseVars, codedVars, geomVars, sumVars, taVars>>

\* agol.py:620-626 with 535-585: _configure_published_service makes its calls
\* in order until one raises (it then returns False) or all returned (True)
PublishConfigure ==
    /\ p_pc = "configure"
    /\ \E n \in 1..Len(ConfigSteps(env)), raises \in BOOLEAN :
        /\ ~raises => n = Len(ConfigSteps(env))
        /\ p_calls' = p_calls \o Prefix(ConfigSteps(env), n)
        /\ LET table == p_tables[p_idx]
               success == ~raises
           IN  IF ConfigureFailed(success)
               THEN /\ summary' = add_table_error(summary, table, "publish",
                                      "Failed to configure published service")
                    /\ p_idx' = p_idx + 1
                    /\ p_pc' = "loop"
               ELSE /\ p_pc' = "record"
                    /\ UNCHANGED <<summary, p_idx>>
        /\ p_fate' = [p_fate EXCEPT ![p_tables[p_idx]].configure =
                          IF raises THEN "failed" ELSE "ok"]
    /\ UNCHANGED <<p_tables, registry, agol_calls>>
    /\ UNCHANGED <<env, firestore, current_hashes, hash_calls>>
    /\ UNCHANGED <<pc, stored0, tables, idx, has_errors, fate, gdb, remote, pkg_count,
                   truncate_calls, append_calls, append_result, partial, truncate_status, pre_truncate_count>>
    /\ UNCHANGED <<retryVars, unitVars, detVars, lookVars, fgdbVars, mainVars, applyVars, parseVars, codedVars, geomVars, sumVars, taVars>>

\* agol.py:628-634: list the table as published, persist its fingerprint,
\* register the new item id.  Neither call is inside a try: set_table_hash may
\* raise in prod/staging (Firestore) and update_agol_item in prod (database);
\* the exception leaves publish_new_feature_services.
PublishRecord ==
    /\ p_pc = "record"
    /\ LET table == p_tables[p_idx]
           item_id == NewItemId(table)
       IN  /\ summary' = add_table_published(summary, table, item_id)
           /\ hash_calls' = Append(hash_calls, <<table, current_hashes[table]>>)
           /\ \/ /\ is_running_in_gcp(env)
                 /\ p_pc' = "raised"
                 /\ p_fate' = [p_fate EXCEPT ![table].record = "hash_raised"]
                 /\ UNCHANGED <<firestore, agol_calls, registry, p_idx>>
              \/ /\ firestore' = set_table_hash(env, firestore, table, current_hashes[table])
                 /\ agol_calls' = Append(agol_calls, <<table, item_id>>)
                 /\ \/ /\ registry' = update_agol_item(env, registry, table, item_id)
                       /\ p_fate' = [p_fate EXCEPT ![table].record = "done"]
                       /\ p_idx' = p_idx + 1
                       /\ p_pc' = "loop"
                    \/ /\ env = "prod"
                       /\ p_pc' = "raised"
                       /\ p_fate' = [p_fate EXCEPT ![table].record = "registry_raised"]
                       /\ UNCHANGED <<registry, p_idx>>
    /\ UNCHANGED <<p_tables, p_calls>>
    /\ UNCHANGED <<env, current_hashes>>
    /\ UNCHANGED <<pc, stored0, tables, idx, has_errors, fate, gdb, remote, pkg_count,
                   truncate_calls, append_calls, append_result, partial, truncate_status, pre_truncate_count>>
    /\ UNCHANGED <<retryVars, unitVars, detVars, lookVars, fgdbVars, mainVars, applyVars, parseVars, codedVars, geomVars, sumVars, taVars>>

\* agol.py:607: the loop is over, publish_new_feature_services returns
PublishReturn ==
    /\ p_pc = "loop"
    /\ p_idx > Len(p_tables)
    /\ p_pc' = "done"
    /\ UNCHANGED <<p_tables, p_idx, p_fate, p_calls, registry, agol_calls>>
    /\ UNCHANGED updVars
    /\ UNCHANGED <<retryVars, unitVars, detVars, lookVars, fgdbVars, mainVars, applyVars, parseVars, codedVars, geomVars, sumVars, taVars>>

\* ---------------------------------------------------------------------------
\* internal.get_agol_items_lookup
\* ---------------------------------------------------------------------------
\* largest number of rows of the registry table
MaxRegistryRows == 2
\* number of hexadecimal digits of a GUID (uuid.UUID: len(hex) != 32 raises)
GuidHexLen == 32
\* TABLENAME values of the registry; the table stores them in any letter case
RegistryNames == {"A", "b", "c"}
\* str.lower() on these names
Lower(name) == IF name = "A" THEN "a" ELSE name

\* SQL NULL / Python None in the AGOL_ITEM_ID column
Null == [null |-> TRUE]
\* a non-null AGOL_ITEM_ID text, described by what uuid.UUID looks at: its
\* length once "urn:", "uuid:", braces and hyphens are removed, and whether the
\* rest reads as a base-16 number
ItemIdTexts ==
    {[len |-> n, hex |-> h] :
        n \in {0, GuidHexLen - 1, GuidHexLen, GuidHexLen + 1}, h \in BOOLEAN}
    \ {[len |-> 0, hex |-> TRUE]}
\* utils.py:107-116
is_guid(value) == value.len = GuidHexLen /\ value.hex

\* internal.py:242  a row is skipped when its id is not None and not a GUID
SkipRow_NullToo(item_id) == item_id = Null \/ ~is_guid(item_id)
SkipRow(item_id) == item_id # Null /\ ~is_guid(item_id)

RegistryRow(name, item_id) ==
    [name |-> name, item_id |-> item_id,
     published_name |-> <<"title", name>>, geometry_type |-> "POLYGON"]
\* internal.py:244-248
LookupEntry(row) ==
    [item_id |-> row.item_id, published_name |-> row.published_name,
     geometry_type |-> row.geometry_type]

\* internal.py:238-250: the loop over the fetched rows; a later row with the
\* same lower-cased name replaces the entry of an earlier one
RECURSIVE LookupLoop(_, _)
LookupLoop(rows, lookup) ==
    IF rows = <<>> THEN lookup
    ELSE LET row == Head(rows)
             key == Lower(row.name)
         IN  LookupLoop(Tail(rows),
                 IF SkipRow(row.item_id)
                 THEN lookup
                 ELSE [k \in DOMAIN lookup \cup {key} |->
                          IF k = key THEN LookupEntry(row) ELSE lookup[k]])

\* internal.py:218-221: dev and staging read the lookup from dev_mocks.json as
\* it is, keyed by the names written there
MockLookup(rows) ==
    [k \in {rows[n].name : n \in 1..Len(rows)} |->
        LookupEntry(CHOOSE r \in SeqToSet(rows) : r.name = k)]

\* internal.py:205-252
get_agol_items_lookup(e, rows) ==
    IF e = "dev" \/ e = "staging" THEN MockLookup(rows) ELSE LookupLoop(rows, <<>>)

\* the registry (or the mock file) lists each table once
RegistryTables ==
    UNION {{[n \in 1..Len(o) |-> RegistryRow(o[n], ids[n])] :
               ids \in [1..Len(o) -> ItemIdTexts \cup {Null}]} :
           o \in UNION {OrdersOf(S) :
                           S \in {T \in SUBSET RegistryNames :
                                     Cardinality(T) <= MaxRegistryRows}}}

LookIdle ==
    /\ l_pc = "idle"
    /\ l_env = "dev"
    /\ l_rows = <<>>
    /\ l_lookup = <<>>

LookInit ==
    /\ l_pc = "call"
    /\ l_env \in Envs
    /\ l_rows \in RegistryTables
    /\ l_lookup = <<>>

GetAgolItemsLookup ==
    /\ l_pc = "call"
    /\ l_lookup' = get_agol_items_lookup(l_env, l_rows)
    /\ l_pc' = "done"
    /\ UNCHANGED <<l_env, l_rows>>
    /\ UNCHANGED <<retryVars, unitVars, detVars, updVars, pubVars, fgdbVars, mainVars, applyVars, parseVars, codedVars, geomVars, sumVars, taVars>>

\* ---------------------------------------------------------------------------
\* internal.create_fgdb
\* ---------------------------------------------------------------------------
\* names of the domains defined in the source geodatabase
DomainNames == {"d1", "d2"}
\* a call that ended with an exception
Raises == "raises"

\* internal.py:310-329: values _count_features_in_internal_table returns: the
\* count, or -1 when the query (or the table name) failed inside its try
CountResults == -1..MaxRows
\* internal.py:307-308: _get_database_connection is called before the try; it
\* returns a connection or raises
ConnectOutcomes == {"ok", Raises}
\* internal.py:404-437: outcomes of _copy_table_to_fgdb; both failures are
\* caught inside it and give False
CopyOutcomes == {"ok", "translate_raises", "unknown_geometry"}
CopySucceeded(outcome) == outcome = "ok"

\* internal.py:477-479: the count is stored when it is not negative
StoreCount(source_count) == source_count >= 0
\* agol.py:458  source_counts.get(table, -1)
SourceCountOf(counts, table) == IF table \in DOMAIN counts THEN counts[table] ELSE -1

\* internal.py:494  `if not tables_copied`
AllFailed(copied) == ~copied

NoDomainStep == [stage |-> "none"]

FgdbIdle ==
    /\ f_pc = "idle"
    /\ f_tables = <<>>
    /\ f_idx = 1
    /\ f_counts = <<>>
    /\ f_copied = FALSE
    /\ f_log = <<>>
    /\ f_dom = NoDomainStep
    /\ f_out = NoOutcome

\* internal.py:440-462: entry of create_fgdb; tables are distinct keys of
\* agol_items_lookup
FgdbInit ==
    /\ f_pc = "start"
    /\ f_tables \in BatchSeqs
    /\ f_idx = 1
    /\ f_counts = <<>>
    /\ f_copied = FALSE
    /\ f_log = <<>>
    /\ f_dom = NoDomainStep
    /\ f_out = NoOutcome

\* internal.py:463-473: an empty list raises ValueError; the layer count of the
\* source connection or _generate_output_path (the title of a single table)
\* may raise
FgdbStart ==
    /\ f_pc = "start"
    /\ IF Len(f_tables) = 0
       THEN /\ f_pc' = "raised"
            /\ f_out' = [exc |-> "No tables provided to create FGDB."]
       ELSE \/ /\ f_pc' = "loop"
               /\ UNCHANGED f_out
            \/ /\ f_pc' = "raised"
               /\ f_out' = [exc |-> "source connection or output path"]
    /\ UNCHANGED <<f_tables, f_idx, f_counts, f_copied, f_log, f_dom>>
    /\ UNCHANGED <<retryVars, unitVars, detVars, updVars, pubVars, lookVars, mainVars, applyVars, parseVars, codedVars, geomVars, sumVars, taVars>>

\* internal.py:474-492: one iteration of the copy loop: count the source rows,
\* then copy the table
FgdbCopyTable ==
    /\ f_pc = "loop"
    /\ f_idx <= Len(f_tables)
    /\ LET table == f_tables[f_idx]
       IN  \E connect \in ConnectOutcomes, source_count \in CountResults :
             IF connect = Raises
             THEN /\ source_count = -1
                  /\ f_log' = Append(f_log, [table |-> table, count |-> Raises,
                                             copy |-> "not attempted"])
                  /\ f_pc' = "raised"
                  /\ f_out' = [exc |-> "database connection"]
                  /\ UNCHANGED <<f_idx, f_counts, f_copied>>
             ELSE \E copy \in CopyOutcomes :
                  /\ f_log' = Append(f_log, [table |-> table,
                                             count |-> IF source_count >= 0
                                                       THEN "counted" ELSE "failed",
                                             copy |-> copy])
                  /\ f_counts' = IF StoreCount(source_count)
                                 THEN [x \in DOMAIN f_counts \cup {table} |->
                                          IF x = table THEN source_count ELSE f_counts[x]]
                                 ELSE f_counts
                  /\ f_copied' = (f_copied \/ CopySucceeded(copy))
                  /\ f_idx' = f_idx + 1
                  /\ f_pc' = IF f_idx = Len(f_tables) THEN "check" ELSE "loop"
                  /\ UNCHANGED f_out
    /\ UNCHANGED <<f_tables, f_dom>>
    /\ UNCHANGED <<retryVars, unitVars, detVars, updVars, pubVars, lookVars, mainVars, applyVars, parseVars, codedVars, geomVars, sumVars, taVars>>

\* internal.py:494-495
FgdbCheckCopied ==
    /\ f_pc = "check"
    /\ IF AllFailed(f_copied)
       THEN /\ f_pc' = "raised"
            /\ f_out' = [exc |-> "FGDB creation failed for all tables."]
       ELSE /\ f_pc' = "domains"
            /\ UNCHANGED f_out
    /\ UNCHANGED <<f_tables, f_idx, f_counts, f_copied, f_log, f_dom>>
    /\ UNCHANGED <<retryVars, unitVars, detVars, updVars, pubVars, lookVars, mainVars, applyVars, parseVars, codedVars, geomVars, sumVars, taVars>>

\* internal.py:503-512: associations of every table of the list, in order:
\* assoc[t] is the set of domain names the fields of t reference; failing are
\* the tables for which the query of get_table_field_domains raises.  The
\* tables asked are those up to the first failing one.
AskedTables(failing) ==
    LET bad == {k \in 1..Len(f_tables) : f_tables[k] \in failing}
    IN  IF bad = {} THEN f_tables
        ELSE Prefix(f_tables, CHOOSE k \in bad : \A j \in bad : k <= j)
UsedDomainNames(assoc) == UNION {assoc[t] : t \in SeqToSet(f_tables)}

\* internal.py:503-510: table_field_domains gets an entry for every table of
\* the list whose field_domains is not empty
TableFieldDomains(assoc) ==
    [t \in {x \in SeqToSet(f_tables) : assoc[x] # {}} |-> assoc[t]]

\* internal.py:521-525: the domains of the source kept for the build
FilterDomains_All(all_domains, used) == all_domains
FilterDomains(all_domains, used) == all_domains \cap used

\* internal.py:497-548: the domain step and the return.  The queries of
\* get_table_field_domains and get_domain_metadata and _get_database_connection
\* are inside try/finally without except: their exceptions leave create_fgdb.
\* create_domains_in_fgdb and apply_domains_to_fields catch every exception and
\* return False, which create_fgdb does not look at; create_domains_in_fgdb
\* creates some of the domains it is given (domains.py:268-284).
FgdbDomains ==
    /\ f_pc = "domains"
    /\ \E connect \in ConnectOutcomes,
          assoc \in [SeqToSet(f_tables) -> SUBSET DomainNames],
          failing \in SUBSET SeqToSet(f_tables),
          metadata \in SUBSET DomainNames, metadata_query \in {"ok", Raises},
          created \in SUBSET DomainNames, apply_ok \in BOOLEAN :
        LET used == UsedDomainNames(assoc)
            domains == IF used # {} THEN FilterDomains(metadata, used) ELSE {}
        IN  IF connect = Raises
            THEN /\ created = {} /\ metadata = {} /\ apply_ok
                 /\ f_dom' = [stage |-> "connect"]
                 /\ f_pc' = "raised"
                 /\ f_out' = [exc |-> "database connection"]
            ELSE IF failing # {}
            THEN /\ created = {} /\ metadata = {} /\ apply_ok
                 /\ f_dom' = [stage |-> "associations", asked |-> AskedTables(failing)]
                 /\ f_pc' = "raised"
                 /\ f_out' = [exc |-> "get_table_field_domains"]
            ELSE IF used # {} /\ metadata_query = Raises
            THEN /\ created = {} /\ metadata = {} /\ apply_ok
                 /\ f_dom' = [stage |-> "metadata", asked |-> f_tables, used |-> used,
                              table_field_domains |-> TableFieldDomains(assoc)]
                 /\ f_pc' = "raised"
                 /\ f_out' = [exc |-> "get_domain_metadata"]
            ELSE /\ created \subseteq domains
                 /\ f_dom' = [stage |-> "returned", asked |-> f_tables, used |-> used,
                              table_field_domains |-> TableFieldDomains(assoc),
                              metadata_read |-> (used # {}),
                              all_domains |-> metadata,
                              created |-> created,
                              create_failed |-> (domains # {} /\ created = {}),
                              apply_failed |-> (used # {} /\ ~apply_ok)]
                 /\ f_pc' = "done"
                 /\ f_out' = [ret |-> [path |-> "output_gdb_path", source_counts |-> f_counts]]
    /\ UNCHANGED <<f_tables, f_idx, f_counts, f_copied, f_log>>
    /\ UNCHANGED <<retryVars, unitVars, detVars, updVars, pubVars, lookVars, mainVars, applyVars, parseVars, codedVars, geomVars, sumVars, taVars>>

\* ---------------------------------------------------------------------------
\* main.main: one run of the process (main.py:435-488)
\* ---------------------------------------------------------------------------

\* main.py:65-70: the tables get_updated_tables returns in dev
DevUpdatedTables == <<"a", "b", "c">>

\* main.py:92-110: the lookup get_agol_items_lookup returns in dev (the second
\* table has no item id)
ItemIdOf(table) == [item |-> table]
DevLookup == [t \in TableNames |-> IF t = "b" THEN None ELSE ItemIdOf(t)]

\* main.py:73-85, 449: outside dev the tables come from a query of
\* SGID.META.ChangeDetection
UpdatedTableLists == UNION {OrdersOf(S) : S \in SUBSET TableNames}

\* main.py:112-131: outside dev the lookup comes from a query of SGID.META.AGOLItems
Lookups ==
    {[t \in TableNames |-> IF t \in S THEN ItemIdOf(t) ELSE None] : S \in SUBSET TableNames}

\* main.py:80-82, 118-120: cursor.execute of a query on the internal database
QueryOutcomes == {"ok", "raises"}

\* main.py:452-456: tables whose lookup entry has an item_id
WithExistingServices(updated_tables, lookup) ==
    SelectSeq(updated_tables, LAMBDA t : lookup[t] # None)

\* main.py:457-461: tables whose lookup entry has no item_id
WithoutExistingServices(updated_tables, lookup) ==
    SelectSeq(updated_tables, LAMBDA t : lookup[t] = None)

\* summary.py:587-596 is the only finalization of the summary
Finalized(called) == \E k \in 1..Len(called) : called[k] = "finish_summary"

NoException == "none"

MainIdle ==
    /\ m_pc = "idle"
    /\ m_env = "dev"
    /\ m_updated = <<>>
    /\ m_lookup = DevLookup
    /\ m_calls = <<>>
    /\ m_exc = NoException

MainInit ==
    /\ m_pc = "start"
    /\ m_env \in Envs
    /\ m_updated = <<>>
    /\ m_lookup = DevLookup
    /\ m_calls = <<>>
    /\ m_exc = NoException

\* main.py:436-447: setup_logging, clean_up, get_last_checked, get_updated_tables;
\* an empty list returns
MainDetect ==
    /\ m_pc = "start"
    /\ \E query \in QueryOutcomes, found \in UpdatedTableLists :
         LET called == <<"setup_logging", "clean_up", "get_last_checked",
                         "get_updated_tables">>
         IN  /\ m_calls' = m_calls \o called
             /\ IF m_env # "dev" /\ query = "raises"
                  THEN /\ m_pc' = "raised"
                       /\ m_exc' = "get_updated_tables"
                       /\ m_updated' = m_updated
                  ELSE /\ m_updated' = IF m_env = "dev" THEN DevUpdatedTables ELSE found
                       /\ m_pc' = IF m_updated' = <<>> THEN "returned" ELSE "lookup"
                       /\ m_exc' = m_exc
    /\ UNCHANGED <<m_env, m_lookup>>
    /\ UNCHANGED <<retryVars, unitVars, detVars, updVars, pubVars, lookVars, fgdbVars, applyVars, parseVars, codedVars, geomVars, sumVars, taVars>>

\* main.py:449: get_agol_items_lookup
MainLookup ==
    /\ m_pc = "lookup"
    /\ \E query \in QueryOutcomes, rows \in Lookups :
         /\ m_calls' = Append(m_calls, "get_agol_items_lookup")
         /\ IF m_env # "dev" /\ query = "raises"
              THEN /\ m_pc' = "raised"
                   /\ m_exc' = "get_agol_items_lookup"
                   /\ m_lookup' = m_lookup
              ELSE /\ m_lookup' = IF m_env = "dev" THEN DevLookup ELSE rows
                   /\ m_pc' = "update"
                   /\ m_exc' = m_exc
    /\ UNCHANGED <<m_env, m_updated>>
    /\ UNCHANGED <<retryVars, unitVars, detVars, updVars, pubVars, lookVars, fgdbVars, applyVars, parseVars, codedVars, geomVars, sumVars, taVars>>

\* main.py:463-479: create_fgdb, zip_and_upload_fgdb and update_feature_services
\* for the tables with a service; each of them may raise (main.py:238, 283,
\* 338-370)
MainUpdate ==
    /\ m_pc = "update"
    /\ IF WithExistingServices(m_updated, m_lookup) # <<>>
         THEN \E steps \in {<<"create_fgdb">>,
                            <<"create_fgdb", "zip_and_upload_fgdb">>,
                            <<"create_fgdb", "zip_and_upload_fgdb",
                              "update_feature_services">>},
                 raises \in BOOLEAN :
                   /\ raises \/ Len(steps) = 3
                   /\ m_calls' = m_calls \o steps
                   /\ m_pc' = IF raises THEN "raised" ELSE "publish"
                   /\ m_exc' = IF raises THEN steps[Len(steps)] ELSE m_exc
         ELSE /\ m_pc' = "publish"
              /\ UNCHANGED <<m_calls, m_exc>>
    /\ UNCHANGED <<m_env, m_updated, m_lookup>>
    /\ UNCHANGED <<retryVars, unitVars, detVars, updVars, pubVars, lookVars, fgdbVars, applyVars, parseVars, codedVars, geomVars, sumVars, taVars>>

\* main.py:481-487: publish_new_feature_services for the tables without a
\* service; it may raise (main.py:384-432 has no try); then main returns
MainPublish ==
    /\ m_pc = "publish"
    /\ IF WithoutExistingServices(m_updated, m_lookup) # <<>>
         THEN \E raises \in BOOLEAN :
                   /\ m_calls' = Append(m_calls, "publish_new_feature_services")
                   /\ m_pc' = IF raises THEN "raised" ELSE "returned"
                   /\ m_exc' = IF raises THEN "publish_new_feature_services" ELSE m_exc
         ELSE /\ m_pc' = "returned"
              /\ UNCHANGED <<m_calls, m_exc>>
    /\ UNCHANGED <<m_env, m_updated, m_lookup>>
    /\ UNCHANGED <<retryVars, unitVars, detVars, updVars, pubVars, lookVars, fgdbVars, applyVars, parseVars, codedVars, geomVars, sumVars, taVars>>

\* ---------------------------------------------------------------------------
\* domains.apply_domains_to_fields (domains.py:460-565)
\* ---------------------------------------------------------------------------

LayerNames == {"l1", "l2"}

FieldNames == {"f1", "f2"}

\* a dict of field name -> domain name
FieldDomainDicts == UNION {[S -> DomainNames] : S \in SUBSET FieldNames}

\* table_field_domains: a dict of layer name -> dict, in insertion order
TableFieldDomainMaps ==
    UNION {UNION {{[k \in 1..Len(o) |-> [layer |-> o[k], fields |-> d[o[k]]]] :
                      d \in [S -> FieldDomainDicts]} : o \in OrdersOf(S)} :
           S \in SUBSET LayerNames}

\* domains.py:482, 493: what gdal.OpenEx and GetLayerByName can do
OpenOutcomes == {"opened", "none", Raises}

LayerOutcomes == {"found", "none", Raises}

\* domains.py:503-549: one pass of the inner loop: field missing, domain
\* missing, an exception of the GDAL calls (caught at 546), or applied
AssocOutcome(field_present, domain_present, alter_raises) ==
    IF ~field_present THEN "no_field"
    ELSE IF ~domain_present THEN "no_domain"
    ELSE IF alter_raises THEN "raised"
    ELSE "applied"

\* domains.py:548: success_count grows by the associations applied
Applied(outcomes) == {f \in DOMAIN outcomes : outcomes[f] = "applied"}

\* domains.py:475-477
EmptyMapResult == TRUE

\* domains.py:557
ApplyResult(success_count) == success_count > 0

ApplyIdle ==
    /\ a_pc = "idle"
    /\ a_map = <<>>
    /\ a_domains = {}
    /\ a_idx = 1
    /\ a_success = 0
    /\ a_total = 0
    /\ a_log = <<>>
    /\ a_out = NoOutcome

ApplyInit ==
    /\ a_pc = "start"
    /\ a_map \in TableFieldDomainMaps
    /\ a_domains \in SUBSET DomainNames
    /\ a_idx = 1
    /\ a_success = 0
    /\ a_total = 0
    /\ a_log = <<>>
    /\ a_out = NoOutcome

\* domains.py:475-491: the empty map returns True; otherwise the FGDB is opened
ApplyOpen ==
    /\ a_pc = "start"
    /\ IF a_map = <<>>
       THEN /\ a_pc' = "done"
            /\ a_out' = [ret |-> EmptyMapResult]
       ELSE \E open \in OpenOutcomes :
              IF open = "opened"
              THEN /\ a_pc' = "loop"
                   /\ UNCHANGED a_out
              ELSE /\ a_pc' = "done"
                   /\ a_out' = [ret |-> FALSE]
    /\ UNCHANGED <<a_map, a_domains, a_idx, a_success, a_total, a_log>>
    /\ UNCHANGED <<retryVars, unitVars, detVars, updVars, pubVars, lookVars, fgdbVars, mainVars, parseVars, codedVars, geomVars, sumVars, taVars>>

\* domains.py:492-550: one iteration of the loop over table_field_domains.
\* An exception of GetLayerByName is outside the inner try: it reaches the
\* outer except (domains.py:562-565), which returns False.
ApplyLayer ==
    /\ a_pc = "loop"
    /\ a_idx <= Len(a_map)
    /\ LET entry == a_map[a_idx]
           names == DOMAIN entry.fields
       IN  \E lookup \in LayerOutcomes, present \in SUBSET FieldNames,
              raising \in SUBSET FieldNames :
             /\ present \subseteq names
             /\ raising \subseteq names
             /\ lookup # "found" => present = {} /\ raising = {}
             /\ IF lookup = Raises
                THEN /\ a_log' = Append(a_log, [layer |-> entry.layer, lookup |-> lookup,
                                                outcomes |-> <<>>])
                     /\ a_pc' = "done"
                     /\ a_out' = [ret |-> FALSE]
                     /\ UNCHANGED <<a_idx, a_success, a_total>>
                ELSE IF lookup = "none"
                THEN /\ a_log' = Append(a_log, [layer |-> entry.layer, lookup |-> lookup,
                                                outcomes |-> <<>>])
                     /\ a_idx' = a_idx + 1
                     /\ UNCHANGED <<a_pc, a_out, a_success, a_total>>
                ELSE LET outcomes ==
                           [f \in names |->
                              AssocOutcome(f \in present, entry.fields[f] \in a_domains,
                                           f \in raising)]
                     IN  /\ a_log' = Append(a_log, [layer |-> entry.layer,
                                                    lookup |-> lookup,
                                                    outcomes |-> outcomes])
                         /\ a_total' = a_total + Cardinality(names)
                         /\ a_success' = a_success + Cardinality(Applied(outcomes))
                         /\ a_idx' = a_idx + 1
                         /\ UNCHANGED <<a_pc, a_out>>
    /\ UNCHANGED <<a_map, a_domains>>
    /\ UNCHANGED <<retryVars, unitVars, detVars, updVars, pubVars, lookVars, fgdbVars, mainVars, parseVars, codedVars, geomVars, sumVars, taVars>>

\* domains.py:552-557: after the loop
ApplyReturn ==
    /\ a_pc = "loop"
    /\ a_idx > Len(a_map)
    /\ a_pc' = "done"
    /\ a_out' = [ret |-> ApplyResult(a_success)]
    /\ UNCHANGED <<a_map, a_domains, a_idx, a_success, a_total, a_log>>
    /\ UNCHANGED <<retryVars, unitVars, detVars, updVars, pubVars, lookVars, fgdbVars, mainVars, parseVars, codedVars, geomVars, sumVars, taVars>>

\* ---------------------------------------------------------------------------
\* domains.parse_coded_value_domain and parse_range_domain (domains.py:81-161)
\* ---------------------------------------------------------------------------

MaxCodedValues == 2

\* a Python str
Str(text) == [str |-> text]

\* Element.text: None for an element without text, otherwise a str
Texts == {None, Str(""), Str("x")}

\* what root.find(tag) returns: None when the child is absent, otherwise the
\* element
Elements == {None} \cup {[text |-> t] : t \in Texts}

\* domains.py:113-124: one CodedValue element with its Code and Name children
CodedValueElements == [Code : Elements, Name : Elements]

\* domains.py:109-111: the CodedValues child: absent, or its CodedValue children
CodedValuesElements ==
    {None} \cup {[children |-> c] :
                    c \in UNION {[1..n -> CodedValueElements] : n \in 0..MaxCodedValues}}

CodedRoots ==
    [DomainName : Elements, FieldType : Elements, Description : Elements,
     CodedValues : CodedValuesElements]

RangeRoots ==
    [DomainName : Elements, FieldType : Elements, Description : Elements,
     MinValue : Elements, MaxValue : Elements]

\* domains.py:98-100, 152-156: `elem.text if elem is not None else ""`
TextOrEmpty(elem) == IF elem # None THEN elem.text ELSE Str("")

\* domains.py:115-124: `elem.text if elem is not None and elem.text is not None else ""`
TextNotNone(elem) == IF elem # None /\ elem.text # None THEN elem.text ELSE Str("")

\* domains.py:81-128
parse_coded_value_domain(root) ==
    [type |-> Str("coded_value"),
     name |-> TextOrEmpty(root.DomainName),
     description |-> TextOrEmpty(root.Description),
     field_type |-> TextOrEmpty(root.FieldType),
     coded_values |->
        IF root.CodedValues # None
        THEN [k \in 1..Len(root.CodedValues.children) |->
                 [code |-> TextNotNone(root.CodedValues.children[k].Code),
                  name |-> TextNotNone(root.CodedValues.children[k].Name)]]
        ELSE <<>>]

\* domains.py:131-161
parse_range_domain(root) ==
    [type |-> Str("range"),
     name |-> TextOrEmpty(root.DomainName),
     description |-> TextOrEmpty(root.Description),
     field_type |-> TextOrEmpty(root.FieldType),
     min_value |-> TextOrEmpty(root.MinValue),
     max_value |-> TextOrEmpty(root.MaxValue)]

ParseIdle ==
    /\ x_pc = "idle"
    /\ x_kind = "range"
    /\ x_root = [DomainName |-> None, FieldType |-> None, Description |-> None,
                 MinValue |-> None, MaxValue |-> None]
    /\ x_out = NoOutcome

ParseInit ==
    /\ x_pc = "call"
    /\ x_kind \in {"coded_value", "range"}
    /\ x_root \in IF x_kind = "coded_value" THEN CodedRoots ELSE RangeRoots
    /\ x_out = NoOutcome

\* domains.py:65-68: the parser chosen by the tag of the root
ParseDomain ==
    /\ x_pc = "call"
    /\ x_out' = IF x_kind = "coded_value"
                THEN parse_coded_value_domain(x_root)
                ELSE parse_range_domain(x_root)
    /\ x_pc' = "done"
    /\ UNCHANGED <<x_kind, x_root>>
    /\ UNCHANGED <<retryVars, unitVars, detVars, updVars, pubVars, lookVars, fgdbVars, mainVars, applyVars, codedVars, geomVars, sumVars, taVars>>

\* ---------------------------------------------------------------------------
\* domains.create_coded_value_domain (domains.py:296-372)
\* ---------------------------------------------------------------------------

\* a code is a str, written as the sequence of its characters
CodeTexts ==
    {<<>>, <<"1">>, <<"1", "2">>, <<"-", "2">>, <<"+", "2">>, <<" ", "1">>, <<"2", " ">>,
     <<"0", "7">>, <<"x">>, <<"1", "x">>, <<"-">>, <<"2", ".", "5">>, <<" ">>}

LabelTexts == {"n1", "n2"}

CodedValuePairs == [code : CodeTexts, name : LabelTexts]

DecimalDigits == <<"0", "1", "2", "3", "4", "5", "6", "7", "8", "9">>

IsDigit(c) == \E d \in 1..10 : DecimalDigits[d] = c

DigitValue(c) == (CHOOSE d \in 1..10 : DecimalDigits[d] = c) - 1

\* str.strip() as int() applies it: leading and trailing blanks are dropped
RECURSIVE StripLeft(_)
StripLeft(text) ==
    IF text # <<>> /\ Head(text) = " " THEN StripLeft(Tail(text)) ELSE text

RECURSIVE StripRight(_)
StripRight(text) ==
    IF text # <<>> /\ text[Len(text)] = " "
    THEN StripRight(SubSeq(text, 1, Len(text) - 1)) ELSE text

RECURSIVE DigitsValue(_)
DigitsValue(digits) ==
    IF digits = <<>> THEN 0
    ELSE 10 * DigitsValue(SubSeq(digits, 1, Len(digits) - 1)) + DigitValue(digits[Len(digits)])

\* int(text) of Python: blanks stripped, an optional sign, then one or more
\* decimal digits; anything else is a ValueError
PyInt(text) ==
    LET stripped == StripRight(StripLeft(text))
        signed == stripped # <<>> /\ Head(stripped) \in {"-", "+"}
        digits == IF signed THEN Tail(stripped) ELSE stripped
    IN  IF digits # <<>> /\ \A k \in 1..Len(digits) : IsDigit(digits[k])
        THEN [ok |-> TRUE,
              value |-> IF signed /\ Head(stripped) = "-"
                        THEN 0 - DigitsValue(digits) ELSE DigitsValue(digits)]
        ELSE [ok |-> FALSE, value |-> 0]

\* domains.py:315-326: field_type_map and its default
EsriFieldTypes ==
    {"esriFieldTypeString", "esriFieldTypeInteger", "esriFieldTypeSmallInteger",
     "esriFieldTypeGUID", "esriFieldTypeDate", ""}

OgrFieldType(esri_field_type) ==
    CASE esri_field_type = "esriFieldTypeString" -> "OFTString"
      [] esri_field_type = "esriFieldTypeInteger" -> "OFTInteger"
      [] esri_field_type = "esriFieldTypeSmallInteger" -> "OFTInteger"
      [] esri_field_type = "esriFieldTypeDouble" -> "OFTReal"
      [] esri_field_type = "esriFieldTypeSingle" -> "OFTReal"
      [] esri_field_type = "esriFieldTypeDate" -> "OFTDate"
      [] esri_field_type = "esriFieldTypeGUID" -> "OFTString"
      [] OTHER -> "OFTString"

\* domains.py:335-338: `int(code) if code else 0`, ValueError gives 0
UnparsableCode_Raises == [exc |-> "ValueError"]
UnparsableCode == [int |-> 0]

IntegerCode(code) ==
    IF code = <<>> THEN [int |-> 0]
    ELSE IF PyInt(code).ok THEN [int |-> PyInt(code).value]
    ELSE UnparsableCode

\* domains.py:332-346: the key a code gets in the dict coded_values
ConvertCode(ogr_field_type, code) ==
    IF ogr_field_type = "OFTInteger" THEN IntegerCode(code) ELSE [str |-> code]

\* dict[key] = value on a dict kept as the sequence of its items
DictSet(dict, key, value) ==
    IF \E k \in 1..Len(dict) : dict[k].key = key
    THEN [k \in 1..Len(dict) |->
             IF dict[k].key = key THEN [key |-> key, value |-> value] ELSE dict[k]]
    ELSE Append(dict, [key |-> key, value |-> value])

\* domains.py:329-346: the loop that fills coded_values; an exception of the
\* conversion leaves the loop
RECURSIVE CodedValuesDict(_, _)
CodedValuesDict(ogr_field_type, pairs) ==
    IF pairs = <<>> THEN [raised |-> FALSE, dict |-> <<>>]
    ELSE LET before == CodedValuesDict(ogr_field_type, SubSeq(pairs, 1, Len(pairs) - 1))
             last == pairs[Len(pairs)]
             key == ConvertCode(ogr_field_type, last.code)
         IN  IF before.raised \/ "exc" \in DOMAIN key
             THEN [raised |-> TRUE, dict |-> before.dict]
             ELSE [raised |-> FALSE, dict |-> DictSet(before.dict, key, last.name)]

\* domains.py:349-362: what ogr.CreateCodedFieldDomain and AddFieldDomain can do
CreateDomainOutcomes == {"created", "none", Raises}

AddDomainOutcomes == {"added", Raises}

CodedIdle ==
    /\ v_pc = "idle"
    /\ v_info = [field_type |-> "", coded_values |-> <<>>]
    /\ v_passed = NoOutcome
    /\ v_out = NoOutcome

CodedInit ==
    /\ v_pc = "call"
    /\ v_info \in [field_type : EsriFieldTypes,
                   coded_values : UNION {[1..n -> CodedValuePairs] : n \in 0..MaxCodedValues}]
    /\ v_passed = NoOutcome
    /\ v_out = NoOutcome

\* domains.py:313-372
CreateCodedValueDomain ==
    /\ v_pc = "call"
    /\ \E create \in CreateDomainOutcomes, add \in AddDomainOutcomes :
         LET ogr_field_type == OgrFieldType(v_info.field_type)
             built == CodedValuesDict(ogr_field_type, v_info.coded_values)
         IN  IF built.raised
             THEN /\ create = "created" /\ add = "added"
                  /\ v_passed' = NoOutcome
                  /\ v_out' = [ret |-> FALSE]
             ELSE /\ create # "created" => add = "added"
                  /\ v_passed' = [field_type |-> ogr_field_type, coded_values |-> built.dict,
                                  create |-> create, add |-> add]
                  /\ v_out' = [ret |-> (create = "created" /\ add = "added")]
    /\ v_pc' = "done"
    /\ UNCHANGED v_info
    /\ UNCHANGED <<retryVars, unitVars, detVars, updVars, pubVars, lookVars, fgdbVars, mainVars, applyVars, parseVars, geomVars, sumVars, taVars>>

\* ---------------------------------------------------------------------------
\* internal._get_geometry_option (internal.py:93-112)
\* ---------------------------------------------------------------------------

UpperLetters == <<"A", "B", "C", "D", "E", "F", "G", "H", "I", "J", "K", "L", "M", "N", "O", "P", "Q", "R", "S", "T", "U", "V", "W", "X", "Y", "Z">>
LowerLetters == <<"a", "b", "c", "d", "e", "f", "g", "h", "i", "j", "k", "l", "m", "n", "o", "p", "q", "r", "s", "t", "u", "v", "w", "x", "y", "z">>

\* str.upper() on one character
UpperChar_Identity(c) == c
UpperChar(c) ==
    IF \E i \in 1..26 : LowerLetters[i] = c
    THEN UpperLetters[CHOOSE i \in 1..26 : LowerLetters[i] = c]
    ELSE c

LowerChar(c) ==
    IF \E i \in 1..26 : UpperLetters[i] = c
    THEN LowerLetters[CHOOSE i \in 1..26 : UpperLetters[i] = c]
    ELSE c

\* geometry_type.upper()
Upper(text) == [k \in 1..Len(text) |-> UpperChar(text[k])]

POLYGON == <<"P", "O", "L", "Y", "G", "O", "N">>
POLYLINE == <<"P", "O", "L", "Y", "L", "I", "N", "E">>
STAND_ALONE == <<"S", "T", "A", "N", "D", " ", "A", "L", "O", "N", "E">>
POINT == <<"P", "O", "I", "N", "T">>
MULTIPOLYGON == <<"M", "U", "L", "T", "I", "P", "O", "L", "Y", "G", "O", "N">>
MULTILINESTRING == <<"M", "U", "L", "T", "I", "L", "I", "N", "E", "S", "T", "R", "I", "N", "G">>
NONE == <<"N", "O", "N", "E">>

\* the spellings of a word in upper and lower case letters
RECURSIVE CaseVariants(_)
CaseVariants(word) ==
    IF word = <<>> THEN {<<>>}
    ELSE {<<c>> \o rest : c \in {Head(word), LowerChar(Head(word))},
                          rest \in CaseVariants(Tail(word))}

\* values of the GEOMETRY_TYPE column: the four classifications in any
\* spelling, the empty string and other texts
GeometryTypes ==
    CaseVariants(POLYGON) \cup CaseVariants(POLYLINE) \cup CaseVariants(POINT)
    \cup CaseVariants(STAND_ALONE)
    \cup {<<>>, MULTIPOLYGON, NONE, <<"C", "U", "S", "T", "O", "M", "_", "G", "E", "O", "M", "E", "T", "R", "Y">>, <<"P", "O", "I", "N", "T", " ">>, <<"S", "T", "A", "N", "D", "A", "L", "O", "N", "E">>}

UnknownGeometry == [exc |-> "ValueError"]

\* internal.py:103-112
get_geometry_option(geometry_type) ==
    IF Upper(geometry_type) = POLYGON THEN [ret |-> MULTIPOLYGON]
    ELSE IF Upper(geometry_type) = POLYLINE THEN [ret |-> MULTILINESTRING]
    ELSE IF Upper(geometry_type) = STAND_ALONE THEN [ret |-> NONE]
    ELSE IF Upper(geometry_type) = POINT THEN [ret |-> POINT]
    ELSE UnknownGeometry

GeomIdle ==
    /\ g_pc = "idle"
    /\ g_type = <<>>
    /\ g_out = NoOutcome
    /\ g_layer = "none"

GeomInit ==
    /\ g_pc = "call"
    /\ g_type \in GeometryTypes
    /\ g_out = NoOutcome
    /\ g_layer = "none"

\* internal.py:93-112: one call
GetGeometryOption ==
    /\ g_pc = "call"
    /\ g_out' = get_geometry_option(g_type)
    /\ g_pc' = "done"
    /\ UNCHANGED <<g_type, g_layer>>
    /\ UNCHANGED <<retryVars, unitVars, detVars, updVars, pubVars, lookVars, fgdbVars, mainVars, applyVars, parseVars, codedVars, sumVars, taVars>>

\* agol.py:309-314: agol_items_lookup[table]["geometry_type"] is the value of
\* the GEOMETRY_TYPE column as fetched (internal.py:247)
get_appropriate_service_layer(geometry_type) ==
    IF geometry_type = STAND_ALONE THEN "Table" ELSE "FeatureLayer"

\* agol.py:295-314: one call, for a table of the same classification
GetAppropriateServiceLayer ==
    /\ g_layer = "none"
    /\ g_pc # "idle"
    /\ g_layer' = get_appropriate_service_layer(g_type)
    /\ UNCHANGED <<g_pc, g_type, g_out>>
    /\ UNCHANGED <<retryVars, unitVars, detVars, updVars, pubVars, lookVars, fgdbVars, mainVars, applyVars, parseVars, codedVars, sumVars, taVars>>

\* ---------------------------------------------------------------------------
\* summary.ProcessSummary.add_table_updated / add_table_published
\* (summary.py:48-68), called in any order
\* ---------------------------------------------------------------------------

MaxAdds == 3

\* item_id: str | None
SummaryItemIds == {None, ItemIdOf("x"), ItemIdOf("y")}

NoCall == [called |-> FALSE]

SumIdle ==
    /\ s_pc = "idle"
    /\ s_sum = EmptySummary
    /\ s_first = [updated |-> <<>>, published |-> <<>>]
    /\ s_last = NoCall
    /\ s_n = 0

\* summary.py:565-577: start_summary creates the summary with empty lists
SumInit ==
    /\ s_pc = "run"
    /\ s_sum = EmptySummary
    /\ s_first = [updated |-> <<>>, published |-> <<>>]
    /\ s_last = NoCall
    /\ s_n = 0

\* the item id remembered for the first add of a table
FirstAdd(first, table, item_id) ==
    IF table \in DOMAIN first THEN first
    ELSE [x \in DOMAIN first \cup {table} |-> IF x = table THEN item_id ELSE first[x]]

\* summary.py:48-57: one call of add_table_updated
AddTableUpdated ==
    /\ s_pc = "run"
    /\ s_n < MaxAdds
    /\ \E table \in TableNames, item_id \in SummaryItemIds :
         /\ s_sum' = add_table_updated(s_sum, table, item_id)
         /\ s_first' = [s_first EXCEPT !.updated = FirstAdd(@, table, item_id)]
         /\ s_last' = [called |-> TRUE, list |-> "updated",
                       repeated |-> (table \in DOMAIN s_first.updated),
                       before |-> s_sum]
    /\ s_n' = s_n + 1
    /\ UNCHANGED s_pc
    /\ UNCHANGED <<retryVars, unitVars, detVars, updVars, pubVars, lookVars, fgdbVars, mainVars, applyVars, parseVars, codedVars, geomVars, taVars>>

\* summary.py:59-68: one call of add_table_published
AddTablePublished ==
    /\ s_pc = "run"
    /\ s_n < MaxAdds
    /\ \E table \in TableNames, item_id \in SummaryItemIds :
         /\ s_sum' = add_table_published(s_sum, table, item_id)
         /\ s_first' = [s_first EXCEPT !.published = FirstAdd(@, table, item_id)]
         /\ s_last' = [called |-> TRUE, list |-> "published",
                       repeated |-> (table \in DOMAIN s_first.published),
                       before |-> s_sum]
    /\ s_n' = s_n + 1
    /\ UNCHANGED s_pc
    /\ UNCHANGED <<retryVars, unitVars, detVars, updVars, pubVars, lookVars, fgdbVars, mainVars, applyVars, parseVars, codedVars, geomVars, taVars>>

\* ---------------------------------------------------------------------------
\* agol._truncate_and_append (agol.py:317-375): one call, with the rows the
\* service held when it started
\* ---------------------------------------------------------------------------
TaIdle ==
    /\ t_pc = "idle"
    /\ t_tries = 1
    /\ t_before = 0
    /\ t_rows = NoRows
    /\ t_pkg = 0

\* agol.py:375 retry(_worker) is entered; utils.py:40 tries = 1
TaInit ==
    /\ t_pc = WorkerEntry
    /\ t_tries = 1
    /\ t_before \in 0..MaxRows
    /\ t_rows = [old |-> t_before, new |-> 0]
    /\ t_pkg \in 0..MaxRows

\* utils.py:52-66 after an attempt of _worker raised
WorkerRaised ==
    IF RetryMayRetry(t_tries)
    THEN /\ t_tries' = t_tries + 1
         /\ t_pc' = WorkerEntry
    ELSE /\ t_pc' = "raised"
         /\ UNCHANGED t_tries

\* agol.py:343-352: the truncate of one attempt; a truncate that did not
\* complete has removed the rows or left them
WorkerTruncate ==
    /\ t_pc = "truncate"
    /\ \E status \in TruncateStatuses \cup {"raises"} :
        /\ IF status = "Completed"
           THEN t_rows' = NoRows
           ELSE \E keep \in {0, t_rows.old} : t_rows' = [t_rows EXCEPT !.old = keep]
        /\ IF status # "raises" /\ TruncateCompleted(status)
           THEN t_pc' = "append" /\ UNCHANGED t_tries
           ELSE WorkerRaised
    /\ UNCHANGED <<t_before, t_pkg>>
    /\ UNCHANGED <<retryVars, unitVars, detVars, updVars, pubVars, lookVars, fgdbVars, mainVars, applyVars, parseVars, codedVars, geomVars, sumVars>>

\* agol.py:354-372: the append of one attempt (rollback=True); a failed append
\* has added some rows of the package layer or none
WorkerAppend ==
    /\ t_pc = "append"
    /\ \/ \E res \in AppendResults :
            /\ AppendSucceeded(res)
            /\ t_rows' = [t_rows EXCEPT !.new = @ + t_pkg]
            /\ t_pc' = "returned"
            /\ UNCHANGED t_tries
       \/ \E res \in AppendResults \cup {AppendRaised} :
            /\ ~AppendSucceeded(res)
            /\ \E part \in 0..t_pkg : t_rows' = [t_rows EXCEPT !.new = @ + part]
            /\ WorkerRaised
    /\ UNCHANGED <<t_before, t_pkg>>
    /\ UNCHANGED <<retryVars, unitVars, detVars, updVars, pubVars, lookVars, fgdbVars, mainVars, applyVars, parseVars, codedVars, geomVars, sumVars>>

\* ---------------------------------------------------------------------------
\* Specifications
\* ---------------------------------------------------------------------------
InitRetry == RetryInit /\ DetIdle /\ UpdIdle /\ PubIdle /\ LookIdle /\ FgdbIdle /\ MainIdle /\ ApplyIdle /\ ParseIdle /\ CodedIdle /\ GeomIdle /\ SumIdle /\ TaIdle
NextRetry == InnerRetryReturns \/ InnerRetryRetries \/ InnerRetryReraises
SpecRetry == InitRetry /\ [][NextRetry]_vars

InitDet == DetInit /\ RetryIdle /\ UnitIdle /\ UpdIdle /\ PubIdle /\ LookIdle /\ FgdbIdle /\ MainIdle /\ ApplyIdle /\ ParseIdle /\ CodedIdle /\ GeomIdle /\ SumIdle /\ TaIdle
NextDet == DetermineUpdatedTables
SpecDet == InitDet /\ [][NextDet]_vars

Init == UpdInit /\ UnitIdle /\ RetryIdle /\ DetIdle /\ PubIdle /\ LookIdle /\ FgdbIdle /\ MainIdle /\ ApplyIdle /\ ParseIdle /\ CodedIdle /\ GeomIdle /\ SumIdle /\ TaIdle
Next == BeginTable \/ Truncate \/ AppendData \/ Verify \/ Cleanup
Spec == Init /\ [][Next]_vars

InitPub == PubInit /\ UpdLocalIdle /\ UnitIdle /\ RetryIdle /\ DetIdle /\ LookIdle /\ FgdbIdle /\ MainIdle /\ ApplyIdle /\ ParseIdle /\ CodedIdle /\ GeomIdle /\ SumIdle /\ TaIdle
NextPub == PublishCreate \/ PublishConfigure \/ PublishRecord \/ PublishReturn
SpecPub == InitPub /\ [][NextPub]_vars

InitLook == LookInit /\ UpdIdle /\ PubIdle /\ UnitIdle /\ RetryIdle /\ DetIdle /\ FgdbIdle /\ MainIdle /\ ApplyIdle /\ ParseIdle /\ CodedIdle /\ GeomIdle /\ SumIdle /\ TaIdle
NextLook == GetAgolItemsLookup
SpecLook == InitLook /\ [][NextLook]_vars

InitFgdb == FgdbInit /\ LookIdle /\ UpdIdle /\ PubIdle /\ UnitIdle /\ RetryIdle /\ DetIdle /\ MainIdle /\ ApplyIdle /\ ParseIdle /\ CodedIdle /\ GeomIdle /\ SumIdle /\ TaIdle
NextFgdb == FgdbStart \/ FgdbCopyTable \/ FgdbCheckCopied \/ FgdbDomains
SpecFgdb == InitFgdb /\ [][NextFgdb]_vars

\* one run of main
InitMain == MainInit /\ FgdbIdle /\ LookIdle /\ UpdIdle /\ PubIdle /\ UnitIdle /\ RetryIdle /\ DetIdle /\ ApplyIdle /\ ParseIdle /\ CodedIdle /\ GeomIdle /\ SumIdle /\ TaIdle
NextMain == MainDetect \/ MainLookup \/ MainUpdate \/ MainPublish
SpecMain == InitMain /\ [][NextMain]_vars

\* one call of apply_domains_to_fields
InitApply == ApplyInit /\ MainIdle /\ FgdbIdle /\ LookIdle /\ UpdIdle /\ PubIdle /\ UnitIdle /\ RetryIdle /\ DetIdle /\ ParseIdle /\ CodedIdle /\ GeomIdle /\ SumIdle /\ TaIdle
NextApply == ApplyOpen \/ ApplyLayer \/ ApplyReturn
SpecApply == InitApply /\ [][NextApply]_vars

\* one call of parse_coded_value_domain or parse_range_domain
InitParse == ParseInit /\ ApplyIdle /\ MainIdle /\ FgdbIdle /\ LookIdle /\ UpdIdle /\ PubIdle /\ UnitIdle /\ RetryIdle /\ DetIdle /\ CodedIdle /\ GeomIdle /\ SumIdle /\ TaIdle
NextParse == ParseDomain
SpecParse == InitParse /\ [][NextParse]_vars

\* one call of create_coded_value_domain
InitCoded == CodedInit /\ ParseIdle /\ ApplyIdle /\ MainIdle /\ FgdbIdle /\ LookIdle /\ UpdIdle /\ PubIdle /\ UnitIdle /\ RetryIdle /\ DetIdle /\ GeomIdle /\ SumIdle /\ TaIdle
NextCoded == CreateCodedValueDomain
SpecCoded == InitCoded /\ [][NextCoded]_vars

\* one call of _get_geometry_option and one of _get_appropriate_service_layer
\* for the same classification
InitGeom == GeomInit /\ CodedIdle /\ ParseIdle /\ ApplyIdle /\ MainIdle /\ FgdbIdle /\ LookIdle /\ UpdIdle /\ PubIdle /\ UnitIdle /\ RetryIdle /\ DetIdle /\ SumIdle /\ TaIdle
NextGeom == GetGeometryOption \/ GetAppropriateServiceLayer
SpecGeom == InitGeom /\ [][NextGeom]_vars

\* a sequence of add_table_updated and add_table_published calls
InitSum == SumInit /\ GeomIdle /\ CodedIdle /\ ParseIdle /\ ApplyIdle /\ MainIdle /\ FgdbIdle /\ LookIdle /\ UpdIdle /\ PubIdle /\ UnitIdle /\ RetryIdle /\ DetIdle /\ TaIdle
NextSum == AddTableUpdated \/ AddTablePublished
SpecSum == InitSum /\ [][NextSum]_vars

\* one call of _truncate_and_append
InitTa == TaInit /\ SumIdle /\ GeomIdle /\ CodedIdle /\ ParseIdle /\ ApplyIdle /\ MainIdle /\ FgdbIdle /\ LookIdle /\ UpdIdle /\ PubIdle /\ UnitIdle /\ RetryIdle /\ DetIdle
NextTa == WorkerTruncate \/ WorkerAppend
SpecTa == InitTa /\ [][NextTa]_vars

\* one call of update_feature_services in which every remote call comes back
\* (returns or raises): the loop body and the retries are sequential code, so
\* the call keeps taking steps while one is possible.  The control flow does
\* not read the stored fingerprints; the run is one in prod, where every step
\* of the loop body can fail, with nothing stored yet.
InitLive == Init /\ env = "prod" /\ firestore = <<>>
NextLive == BeginTable \/ Truncate \/ AppendData \/ Verify \/ Cleanup
SpecLive == InitLive /\ [][NextLive]_vars /\ WF_vars(NextLive)

\* one call of update_feature_services or one call of
\* publish_new_feature_services
InitBatch == (Init /\ p_pc = "idle") \/ (InitPub /\ pc = "idle")
NextBatch == Next \/ NextPub
SpecBatch == InitBatch /\ [][NextBatch]_vars

\* ---------------------------------------------------------------------------
\* Properties of utils.retry
\* ---------------------------------------------------------------------------
RECURSIVE Pow(_, _)
Pow(b, n) == IF n = 0 THEN 1 ELSE b * Pow(b, n - 1)

RetryRaised   == r_pc = "done" /\ "exc" \in DOMAIN r_out
RetryReturned == r_pc = "done" /\ "ret" \in DOMAIN r_out

\* C7: retry invokes the worker at most RETRY_MAX_TRIES+1 times; exactly
\* RETRY_MAX_TRIES+1 times when every attempt raised (whatever the exception
\* kinds), and exactly k+1 times when the first k <= RETRY_MAX_TRIES attempts
\* raised and attempt k+1 returned, in which case retry returns and the worker
\* is not called again.
C7_CallCount ==
    /\ calls <= RETRY_MAX_TRIES + 1
    /\ RetryRaised =>
          /\ calls = RETRY_MAX_TRIES + 1
          /\ Len(raised) = calls
    /\ RetryReturned =>
          /\ Len(raised) <= RETRY_MAX_TRIES
          /\ calls = Len(raised) + 1
          /\ r_out.ret \in RetVals
    /\ (r_pc = "call") => calls = Len(raised)

C7_Witness ==
    /\ RetryReturned
    /\ calls = RETRY_MAX_TRIES + 1
    /\ {raised[n].kind : n \in 1..Len(raised)} = ExcKinds

C9_LastError ==
    RetryRaised =>
        /\ r_out.exc = raised[Len(raised)]
        /\ r_out.exc.msg = calls
        /\ r_out.exc.kind \in ExcKinds
        /\ r_out.exc # raised[1]

C9_Witness ==
    /\ RetryRaised
    /\ raised[1].kind = "ValueError"
    /\ r_out.exc = Exc("RuntimeError", RETRY_MAX_TRIES + 1)

\* ---------------------------------------------------------------------------
\* Properties of agol._truncate_and_append and agol.update_feature_services
\* ---------------------------------------------------------------------------
BatchTables == SeqToSet(tables)
Finished == pc \in {"done", "raised"}
\* the iteration of tables[idx - 1] has just ended
IterationEnded == pc \in {"loop", "done", "raised"} /\ idx > 1
HashCalledFor(t) == \E k \in 1..Len(hash_calls) : hash_calls[k][1] = t
\* the answer of service_item.append itself says the rows were appended
RemoteAppendOk(r) ==
    /\ "raises" \notin DOMAIN r
    /\ "none" \notin DOMAIN r
    /\ IF r.is_tuple THEN r.first = TRUE ELSE r.truthy = TRUE
\* the table ended in an error branch of update_feature_services (the last kind:
\* the service was updated, then persisting the fingerprint raised)
Failed(t) ==
    fate[t].kind \in {"no_item", "get_raised", "setup_failed", "ta_failed", "persist_failed"}
\* the update of the remote service did not happen
UpdateFailed(t) ==
    fate[t].kind \in {"no_item", "get_raised", "setup_failed", "ta_failed"}
\* _truncate_and_append returned success for the table
AppendedOk(t) == fate[t].kind \in {"updated", "persist_failed"}

\* C1: truncate and append are retried as one unit: an attempt reaches append
\* only after running its own truncate, so a retry after a failed append runs
\* truncate again; when every failed attempt failed in append (such as one
\* append failure followed by success), truncate was called as often as append.
C1_RetriedAsUnit ==
    /\ (pc = "append") => truncate_calls = tries /\ append_calls < truncate_calls
    /\ (pc = "verify" /\ append_calls = tries) => truncate_calls = append_calls

C1_Witness ==
    /\ pc = "verify"
    /\ tries = 2
    /\ append_calls = 2
    /\ truncate_calls = 2

\* C2: when update_feature_services ends, the delete of the temporary package
\* was invoked if and only if no table of the batch failed; after any failure
\* the package is still there.
C2_CleanupIffNoFailure ==
    /\ Finished =>
          /\ gdb.delete_called <=> ~(\E t \in BatchTables : Failed(t))
          /\ (\E t \in BatchTables : Failed(t)) => gdb.exists
    /\ ~Finished => ~gdb.delete_called /\ gdb.exists

C2_Witness ==
    /\ pc = "done"
    /\ Len(tables) = 2
    /\ fate[tables[1]].kind = "updated"
    /\ fate[tables[2]].kind = "ta_failed"
    /\ ~gdb.delete_called

\* C3: the fingerprint of a table is persisted (set_table_hash is called) only
\* when its truncate-and-append succeeded, its post-append count is non-zero
\* and that count equals the source count.
C3_PersistOnlyWhenCountsMatch ==
    \A t \in BatchTables :
        HashCalledFor(t) =>
            /\ AppendedOk(t)
            /\ fate[t].post # 0
            /\ fate[t].post = fate[t].src

\* C4: set_table_hash is never called for a table whose update failed (item
\* not found, truncate or append failing after the last retry, an exception
\* while processing it); the stored fingerprint of a failed table is unchanged
\* and, if the table was in this run's update set, it is in the next run's.
C4_NoHashAfterFailure ==
    /\ \A t \in BatchTables : UpdateFailed(t) => ~HashCalledFor(t)
    /\ (IterationEnded /\ append_result # NoResult /\ ~RemoteAppendOk(append_result))
          => ~HashCalledFor(tables[idx - 1])
    /\ \A t \in BatchTables :
          UpdateFailed(t) =>
            LET now == get_table_hashes(env, firestore)
            IN  /\ (t \in DOMAIN now) = (t \in DOMAIN stored0)
                /\ (t \in DOMAIN now) => now[t] = stored0[t]
                /\ t \in SeqToSet(determine_updated_tables(stored0, current_hashes, tables))
                     => t \in SeqToSet(determine_updated_tables(now, current_hashes, tables))

C4_Witness ==
    /\ pc = "done"
    /\ is_running_in_gcp(env)
    /\ Len(tables) = 2
    /\ fate[tables[1]].kind = "updated"
    /\ fate[tables[2]].kind = "ta_failed"
    /\ append_calls = RETRY_MAX_TRIES + 1
    /\ ~RemoteAppendOk(append_result)
    /\ tables[2] \in DOMAIN stored0
    /\ stored0[tables[2]] # current_hashes[tables[2]]

\* C5: whenever truncate-and-append returned success for a table and its
\* post-append count is 0, the table is recorded as errored in the run summary.
C5_ZeroFeaturesRecorded ==
    \A t \in BatchTables :
        (AppendedOk(t) /\ fate[t].post = 0) => t \in SeqToSet(summary.tables_with_errors)

C5_Witness ==
    /\ IterationEnded
    /\ fate[tables[idx - 1]].kind = "updated"
    /\ fate[tables[idx - 1]].post = 0
    /\ RemoteAppendOk(append_result)
    /\ tables[idx - 1] \in SeqToSet(summary.tables_updated)

\* the reconciliation has no finding for these counts
NoFinding(f) == f.post # 0 /\ ~(f.post > 0 /\ f.src >= 0 /\ f.src # f.post)

\* first table updated without finding, second table's append failed on all
\* RETRY_MAX_TRIES+1 attempts
ScenarioD ==
    /\ Finished
    /\ Len(tables) = 2
    /\ fate[tables[1]].kind = "updated"
    /\ NoFinding(fate[tables[1]])
    /\ fate[tables[2]].kind = "ta_failed"
    /\ append_calls = RETRY_MAX_TRIES + 1
    /\ append_result # NoResult

\* C6: in a batch of two where the first update succeeds and the second's
\* append fails on all 4 attempts, the temporary package is not deleted and the
\* summary holds exactly one updated table (the first) and exactly one errored
\* table (the second).
C6_ScenarioD ==
    ScenarioD =>
        /\ ~gdb.delete_called
        /\ gdb.exists
        /\ summary.tables_updated = <<tables[1]>>
        /\ summary.tables_with_errors = <<tables[2]>>

C6_Witness ==
    /\ ScenarioD
    /\ pc = "done"
    /\ append_calls = 4
    /\ truncate_calls = 4

\* the update set the next run computes from what this run left in the store,
\* with unchanged current fingerprints
NextUpdateSet ==
    SeqToSet(determine_updated_tables(get_table_hashes(env, firestore),
                                      current_hashes, tables))
\* the update of t went through without error and without finding
FullySucceeded(t) == fate[t].kind = "updated" /\ NoFinding(fate[t])

\* C11 as stated: a table absent from the stored fingerprints is in the update
\* set; after its update fully succeeded the stored fingerprints map it to its
\* current fingerprint and the update set of a re-run with unchanged current
\* fingerprints does not contain it (in every environment).
C11_AcrossRuns_Original ==
    \A t \in BatchTables :
        /\ t \notin DOMAIN stored0 =>
              t \in SeqToSet(determine_updated_tables(stored0, current_hashes, tables))
        /\ FullySucceeded(t) =>
              LET now == get_table_hashes(env, firestore)
              IN  /\ t \in DOMAIN now
                  /\ now[t] = current_hashes[t]
                  /\ t \notin NextUpdateSet

\* C11 (amended): a table absent from the stored fingerprints is in the update
\* set; in prod and staging, after its update fully succeeded the stored
\* fingerprints map it to its current fingerprint and the update set of a
\* re-run with unchanged current fingerprints does not contain it; in any
\* other environment nothing is stored, and the re-run's update set contains
\* every table again.
C11_AcrossRuns ==
    \A t \in BatchTables :
        /\ t \notin DOMAIN stored0 =>
              t \in SeqToSet(determine_updated_tables(stored0, current_hashes, tables))
        /\ (FullySucceeded(t) /\ is_running_in_gcp(env)) =>
              LET now == get_table_hashes(env, firestore)
              IN  /\ t \in DOMAIN now
                  /\ now[t] = current_hashes[t]
                  /\ t \notin NextUpdateSet
        /\ ~is_running_in_gcp(env) =>
              /\ get_table_hashes(env, firestore) = <<>>
              /\ t \in NextUpdateSet

C11_Witness ==
    /\ pc = "done"
    /\ env = "prod"
    /\ Len(tables) = 2
    /\ stored0 = <<>>
    /\ \A t \in BatchTables : FullySucceeded(t)
    /\ firestore = [t \in BatchTables |-> CurrentHash]
    /\ NextUpdateSet = {}

\* C12: when _truncate_and_append returns success, the service holds exactly
\* the rows of one append of the package layer: none of the rows it held
\* before and none left by an earlier failed attempt of the same call, however
\* many attempts failed and whether or not their append was partially applied.
C12_ExactlyOneAppend ==
    (pc = "verify") =>
        /\ remote.old = 0
        /\ remote.new = pkg_count
        /\ RemoteCount(remote) = pkg_count

C12_Witness ==
    /\ pc = "verify"
    /\ partial
    /\ tries = RETRY_MAX_TRIES + 1
    /\ pkg_count = MaxRows
    /\ remote = [old |-> 0, new |-> MaxRows]

\* the finding the reconciliation recorded for an updated table
Finding(t) ==
    IF \E k \in 1..Len(summary.feature_count_mismatches) :
          summary.feature_count_mismatches[k][1] = t
    THEN "mismatch"
    ELSE IF t \in SeqToSet(summary.tables_with_errors) THEN "zero_features"
    ELSE "clean"

\* C18: for an updated table whose source count and post-append count are
\* known, the reconciliation applies exactly one classification: equal counts
\* give no finding; a remote count of zero with a positive source count gives
\* the zero-features finding; unequal counts that are both non-zero give the
\* mismatch finding.
C18_Classification ==
    \A t \in BatchTables :
        (fate[t].kind = "updated" /\ fate[t].post >= 0 /\ fate[t].src >= 0) =>
            LET src == fate[t].src
                post == fate[t].post
            IN  /\ (src = post) => Finding(t) = "clean"
                /\ (post = 0 /\ src > 0) => Finding(t) = "zero_features"
                /\ (src # post /\ src # 0 /\ post # 0) => Finding(t) = "mismatch"

\* ---------------------------------------------------------------------------
\* Properties of agol.publish_new_feature_services
\* ---------------------------------------------------------------------------
PubTables == SeqToSet(p_tables)
BothSucceeded(t) == p_fate[t].create = "ok" /\ p_fate[t].configure = "ok"
EitherFailed(t) == p_fate[t].create = "failed" \/ p_fate[t].configure = "failed"
AgolCalledFor(t) == \E k \in 1..Len(agol_calls) : agol_calls[k][1] = t
PublishErrorFor(t) == \E k \in 1..Len(summary.publish_errors) : summary.publish_errors[k][1] = t
UpdateErrorFor(t) == \E k \in 1..Len(summary.update_errors) : summary.update_errors[k][1] = t
ListedPublished(t) == t \in SeqToSet(summary.tables_published)
\* the loop has gone past the table
PubIterationOver(t) == \E i \in 1..Len(p_tables) : p_tables[i] = t /\ i < p_idx

UpdAbortedAfter(i) ==
    \E k \in (i + 1)..Len(tables) : fate[tables[k]].kind = "get_raised"
\* (publish_new_feature_services: set_table_hash or update_agol_item raised)
PubAbortedAfter(i) ==
    \E k \in (i + 1)..Len(p_tables) :
        p_fate[p_tables[k]].record \in {"hash_raised", "registry_raised"}

Rows == SeqToSet(l_rows)
\* the id text has the form of a GUID
ValidGuid(item_id) == item_id # Null /\ item_id.len = GuidHexLen /\ item_id.hex = TRUE

\* C14: in prod the lookup has an entry for a registry row exactly when the
\* row's item id is null or a valid GUID: rows with a non-null id that is not a
\* GUID are left out, rows with a null id are kept with item_id None, and every
\* entry carries its row's id, published name and geometry type under the
\* lower-cased table name.
C14_LookupFilter ==
    (l_pc = "done" /\ l_env = "prod") =>
        /\ \A r \in Rows :
              /\ (Lower(r.name) \in DOMAIN l_lookup) <=> (r.item_id = Null \/ ValidGuid(r.item_id))
              /\ (r.item_id # Null /\ ~ValidGuid(r.item_id)) => Lower(r.name) \notin DOMAIN l_lookup
              /\ (r.item_id = Null) =>
                    /\ Lower(r.name) \in DOMAIN l_lookup
                    /\ l_lookup[Lower(r.name)].item_id = Null
              /\ (Lower(r.name) \in DOMAIN l_lookup) =>
                    /\ l_lookup[Lower(r.name)].item_id = r.item_id
                    /\ l_lookup[Lower(r.name)].published_name = r.published_name
                    /\ l_lookup[Lower(r.name)].geometry_type = r.geometry_type
        /\ DOMAIN l_lookup \subseteq {Lower(r.name) : r \in Rows}

C14_Witness ==
    /\ l_pc = "done"
    /\ l_env = "prod"
    /\ Len(l_rows) = MaxRegistryRows
    /\ \E r \in Rows : r.item_id = Null /\ Lower(r.name) \in DOMAIN l_lookup
    /\ \E r \in Rows : r.item_id # Null /\ ~ValidGuid(r.item_id)
    /\ Cardinality(DOMAIN l_lookup) = MaxRegistryRows - 1

\* ---------------------------------------------------------------------------
\* Properties of internal.create_fgdb
\* ---------------------------------------------------------------------------
FgdbEnded == f_pc \in {"done", "raised"}
SomeTableCopied == \E k \in 1..Len(f_log) : CopySucceeded(f_log[k].copy)

\* C13: for a non-empty table list create_fgdb fails as a whole if and only if
\* no table was copied successfully; a table whose copy failed (unknown
\* geometry type included) is skipped, and the tables after it are still
\* attempted, in input order.
C13_FailsIffNoneCopied ==
    /\ (FgdbEnded /\ Len(f_tables) > 0) => ((f_pc = "raised") <=> ~SomeTableCopied)
    /\ \A k \in 1..Len(f_log) :
          /\ f_log[k].table = f_tables[k]
          /\ (f_log[k].copy \in CopyOutcomes /\ ~CopySucceeded(f_log[k].copy)
                /\ k < Len(f_tables)) =>
                    f_pc = "loop" \/ Len(f_log) > k

\* C19: when counting the source rows of a table fails, the copy of that table
\* is still attempted, create_fgdb does not fail because of it, and the source
\* count of the table read from the returned counts is -1.
C19_CountFailureHarmless ==
    \A k \in 1..Len(f_log) :
        (f_log[k].count \in {"failed", Raises}) =>
            /\ f_log[k].copy \in CopyOutcomes
            /\ (f_pc = "raised") => f_out.exc # "database connection" \/ f_dom.stage = "connect"
            /\ (f_pc = "done") =>
                  SourceCountOf(f_out.ret.source_counts, f_log[k].table) = -1

\* C20: once a table was copied, a failure of the domain step (reading the
\* field-domain associations of a table, reading the domain metadata, creating
\* the domains in the package, applying them to the fields) does not make
\* create_fgdb fail: it returns the package path and the source counts.
C20_DomainFailureHarmless ==
    (SomeTableCopied /\ f_dom.stage \in {"associations", "metadata", "returned"}) =>
        /\ f_pc = "done"
        /\ "ret" \in DOMAIN f_out
        /\ f_out.ret.source_counts = f_counts

\* ---------------------------------------------------------------------------
\* Properties of internal.determine_updated_tables
\* ---------------------------------------------------------------------------

\* C10: determine_updated_tables returns exactly the keys d of current with
\* d not in stored or stored[d] # current[d], each once; a key only in stored
\* is never returned; empty current or stored = current gives the empty list.
C10_UpdateSet ==
    (d_pc = "done") =>
        /\ SeqToSet(d_updated) =
              {d \in DOMAIN d_current :
                  IF d \in DOMAIN d_stored THEN d_stored[d] # d_current[d] ELSE TRUE}
        /\ Cardinality(SeqToSet(d_updated)) = Len(d_updated)
        /\ \A d \in DOMAIN d_stored \ DOMAIN d_current : d \notin SeqToSet(d_updated)
        /\ (DOMAIN d_current = {}) => d_updated = <<>>
        /\ (d_stored = d_current) => d_updated = <<>>

C10_Witness ==
    /\ d_pc = "done"
    /\ \E x, y, z \in TableNames :
        /\ x \in DOMAIN d_stored \ DOMAIN d_current
        /\ y \in DOMAIN d_current \ DOMAIN d_stored
        /\ z \in DOMAIN d_current \cap DOMAIN d_stored
        /\ d_stored[z] # d_current[z]
        /\ d_updated \in {<<y, z>>, <<z, y>>}

\* ---------------------------------------------------------------------------
\* C17: on every run, also one ended by an exception that reaches the top
\* level (for example a failing change-detection query), finish_summary has
\* been executed when the process exits.
MainExited == m_pc \in {"returned", "raised"}

C17_SummaryFinalized == MainExited => Finalized(m_calls)

\* ---------------------------------------------------------------------------
\* C21: create_fgdb collects field-to-domain associations only for tables whose
\* copy succeeded: a table whose copy failed has no entry in
\* table_field_domains and adds no name to used_domain_names.
DomainsCollected == f_dom.stage \in {"metadata", "returned"}

CopiedTables == {f_log[k].table : k \in {j \in 1..Len(f_log) : CopySucceeded(f_log[j].copy)}}

C21_AssociationsOnlyForCopied ==
    DomainsCollected =>
        /\ DOMAIN f_dom.table_field_domains \subseteq CopiedTables
        /\ f_dom.used \subseteq
              UNION {f_dom.table_field_domains[t] :
                        t \in DOMAIN f_dom.table_field_domains \cap CopiedTables}

\* C22: the domains create_fgdb creates are a subset of the domain names the
\* fields of its tables reference; a domain of the source no field references
\* is not created; with no referenced domain the domain metadata is not read.
C22_OnlyReferencedDomains ==
    f_dom.stage = "returned" =>
        /\ f_dom.created \subseteq f_dom.used
        /\ f_dom.created \subseteq
              UNION {f_dom.table_field_domains[t] : t \in DOMAIN f_dom.table_field_domains}
        /\ (f_dom.used = {} => ~f_dom.metadata_read /\ f_dom.created = {})

C22_Witness ==
    /\ f_dom.stage = "returned"
    /\ f_dom.created # {}
    /\ f_dom.all_domains \ f_dom.used # {}

\* ---------------------------------------------------------------------------
\* C23: apply_domains_to_fields skips, without raising, every association whose
\* layer, field or domain is missing from the FGDB, still applies the other
\* associations, and returns True exactly when at least one association was
\* applied; for an empty map it returns True.
ApplyDone == a_pc = "done"

AppliedAssociations ==
    {<<a_log[k].layer, f>> : k \in 1..Len(a_log), f \in FieldNames} \cap
    UNION {{<<a_log[k].layer, f>> : f \in Applied(a_log[k].outcomes)} : k \in 1..Len(a_log)}

C23_SkipMissingApplyRest ==
    ApplyDone =>
        /\ a_out \in {[ret |-> TRUE], [ret |-> FALSE]}
        /\ a_map = <<>> => a_out.ret
        /\ a_map # <<>> => (a_out.ret <=> AppliedAssociations # {})
        /\ a_log # <<>> => Len(a_log) = Len(a_map)
        /\ \A k \in 1..Len(a_log) : a_log[k].lookup \in {"found", "none"} =>
              \A f \in DOMAIN a_log[k].outcomes :
                  a_log[k].outcomes[f] \in {"applied", "no_field", "no_domain", "raised"}

\* ---------------------------------------------------------------------------
\* C24: parse_coded_value_domain and parse_range_domain never put None into the
\* parsed domain: name, description, field type, min, max and every code and
\* label are the empty string when the element is absent or has no text.
ParsedTexts ==
    {x_out.name, x_out.description, x_out.field_type}
    \cup (IF x_kind = "range" THEN {x_out.min_value, x_out.max_value}
          ELSE UNION {{x_out.coded_values[k].code, x_out.coded_values[k].name} :
                         k \in 1..Len(x_out.coded_values)})

C24_NoNullInParsedDomain ==
    x_pc = "done" =>
        /\ None \notin ParsedTexts
        /\ (x_root.DomainName = None \/ x_root.DomainName = [text |-> None])
               => x_out.name = Str("")
        /\ x_kind = "coded_value" /\ x_root.CodedValues # None =>
              \A k \in 1..Len(x_root.CodedValues.children) :
                  (x_root.CodedValues.children[k].Code \in {None, [text |-> None]})
                      => x_out.coded_values[k].code = Str("")

\* ---------------------------------------------------------------------------
\* C25: for a coded-value domain with N (code, label) pairs and a declared
\* integer type, create_coded_value_domain passes every code as an integer, 0
\* for an empty or unparsable code, and no code makes it raise or return False.
DeclaredInteger == v_info.field_type \in {"esriFieldTypeInteger", "esriFieldTypeSmallInteger"}

PassedKeys == {v_passed.coded_values[k].key : k \in 1..Len(v_passed.coded_values)}

C25_UnparsableCodeIsZero ==
    (v_pc = "done" /\ DeclaredInteger) =>
        /\ v_passed # NoOutcome
        /\ \A key \in PassedKeys : DOMAIN key = {"int"}
        /\ \A k \in 1..Len(v_info.coded_values) :
              LET code == v_info.coded_values[k].code
              IN  /\ PyInt(code).ok => [int |-> PyInt(code).value] \in PassedKeys
                  /\ (code = <<>> \/ ~PyInt(code).ok) => [int |-> 0] \in PassedKeys
        /\ (v_passed.create = "created" /\ v_passed.add = "added") => v_out.ret

C25_Witness ==
    /\ v_pc = "done"
    /\ DeclaredInteger
    /\ Len(v_info.coded_values) = 2
    /\ v_info.coded_values[1].code = <<"1", "x">>
    /\ v_info.coded_values[2].code = <<"-", "2">>
    /\ PassedKeys = {[int |-> 0], [int |-> 0 - 2]}
    /\ v_out.ret

\* ---------------------------------------------------------------------------
\* C26: for each new table the remote calls are made in the order upload,
\* publish, delete of the temporary upload, then the configuration (update of
\* the metadata, export capability, move to the category folder, sharing in
\* prod only); the configuration never starts before the delete of the upload
\* and never runs for a table whose create/publish failed.
IsPrefixOf(short, long) ==
    Len(short) <= Len(long) /\ \A k \in 1..Len(short) : short[k] = long[k]

\* the table the calls of p_calls were made for
LastPublishTable ==
    IF p_pc \in {"configure", "record", "raised"} THEN p_tables[p_idx]
    ELSE p_tables[p_idx - 1]

ConfigureStarted == \E k \in 1..Len(p_calls) : p_calls[k] = "update"

C26_PublishCallOrder ==
    /\ IsPrefixOf(p_calls, CreateSteps \o ConfigSteps(env))
    /\ ConfigureStarted =>
          /\ Prefix(p_calls, Len(CreateSteps)) = CreateSteps
          /\ p_fate[LastPublishTable].create = "ok"
    /\ \A t \in BatchNames :
          p_fate[t].create = "failed" => p_fate[t].configure = "pending"

C26_Witness ==
    /\ env = "prod"
    /\ p_calls = <<"create_fgdb", "upload", "publish", "delete_upload", "update",
                   "fromitem", "update_definition", "move", "sharing_level",
                   "content_status", "protect">>
    /\ \E t \in BatchNames : p_fate[t].create = "failed"

\* C27: _configure_published_service sets the sharing level, marks the item
\* public_authoritative and protects it exactly when the environment is prod;
\* in dev, staging or any other environment none of the three is done.
ProdOnlySteps == {"sharing_level", "content_status", "protect"}

ConfigureReturnedTrue ==
    /\ p_calls # <<>>
    /\ p_fate[LastPublishTable].configure = "ok"

C27_SharingOnlyInProd ==
    /\ env # "prod" => \A k \in 1..Len(p_calls) : p_calls[k] \notin ProdOnlySteps
    /\ (ConfigureReturnedTrue /\ env = "prod") =>
          ProdOnlySteps \subseteq {p_calls[k] : k \in 1..Len(p_calls)}

C27_Witness ==
    /\ ConfigureReturnedTrue
    /\ env = "staging"
    /\ p_calls = <<"create_fgdb", "upload", "publish", "delete_upload", "update",
                   "fromitem", "update_definition", "move">>

\* ---------------------------------------------------------------------------
\* C28 as stated: _get_geometry_option maps POLYGON to MULTIPOLYGON, POLYLINE
\* to MULTILINESTRING, STAND ALONE to NONE and POINT to POINT, and raises the
\* unknown-geometry error for every other value, the empty string included.
C28_GeometryOption_Original ==
    g_pc = "done" =>
        /\ g_type = POLYGON => g_out = [ret |-> MULTIPOLYGON]
        /\ g_type = POLYLINE => g_out = [ret |-> MULTILINESTRING]
        /\ g_type = STAND_ALONE => g_out = [ret |-> NONE]
        /\ g_type = POINT => g_out = [ret |-> POINT]
        /\ g_type \notin {POLYGON, POLYLINE, STAND_ALONE, POINT} => g_out = UnknownGeometry

\* two texts that differ at most in the case of their letters
SameIgnoringCase(a, b) ==
    Len(a) = Len(b) /\ \A k \in 1..Len(a) : a[k] = b[k] \/ LowerChar(a[k]) = LowerChar(b[k])

\* C28 (amended): the four classifications are recognised in any spelling of
\* upper and lower case letters; a text that is none of them in any spelling,
\* the empty string included, raises the unknown-geometry error.
C28_GeometryOption ==
    g_pc = "done" =>
        /\ SameIgnoringCase(g_type, POLYGON) => g_out = [ret |-> MULTIPOLYGON]
        /\ SameIgnoringCase(g_type, POLYLINE) => g_out = [ret |-> MULTILINESTRING]
        /\ SameIgnoringCase(g_type, STAND_ALONE) => g_out = [ret |-> NONE]
        /\ SameIgnoringCase(g_type, POINT) => g_out = [ret |-> POINT]
        /\ (\A word \in {POLYGON, POLYLINE, STAND_ALONE, POINT} :
               ~SameIgnoringCase(g_type, word)) => g_out = UnknownGeometry

C28_Witness ==
    /\ g_pc = "done"
    /\ g_type # STAND_ALONE
    /\ SameIgnoringCase(g_type, STAND_ALONE)
    /\ g_out = [ret |-> NONE]

\* ---------------------------------------------------------------------------
\* C29: after any sequence of add_table_updated and add_table_published calls
\* tables_updated (tables_published) has no duplicate, updated_item_ids
\* (published_item_ids) has the same length, the id at index i is the id given
\* when the table at index i was first added, and a repeated add of a listed
\* table changes neither list.
NoDuplicates(list) == \A i, j \in 1..Len(list) : i # j => list[i] # list[j]

ListsAgree(names, ids, first) ==
    /\ NoDuplicates(names)
    /\ Len(ids) = Len(names)
    /\ SeqToSet(names) = DOMAIN first
    /\ \A i \in 1..Len(names) : ids[i] = first[names[i]]

C29_SummaryLists ==
    s_pc = "run" =>
        /\ ListsAgree(s_sum.tables_updated, s_sum.updated_item_ids, s_first.updated)
        /\ ListsAgree(s_sum.tables_published, s_sum.published_item_ids, s_first.published)
        /\ (s_last.called /\ s_last.repeated) => s_sum = s_last.before

C29_Witness ==
    /\ s_pc = "run"
    /\ s_last.called /\ s_last.repeated /\ s_last.list = "updated"
    /\ Len(s_sum.tables_updated) = 2
    /\ s_sum.updated_item_ids = <<None, ItemIdOf("x")>>
    /\ Len(s_sum.tables_published) = 0

\* ---------------------------------------------------------------------------
\* C30: within every attempt of _truncate_and_append the append is invoked only
\* after the truncate of that same attempt reported the status Completed; a
\* truncate that reports anything else raises before the append is called, and
\* the retry runs both steps again.
TruncateNotCompleted == truncate_status \notin {"none", "Completed"}

C30_AppendOnlyAfterCompletedTruncate ==
    /\ (pc = "append") => truncate_status = "Completed" /\ truncate_calls = tries
    /\ append_calls <= truncate_calls
    /\ TruncateNotCompleted => append_calls < truncate_calls
    /\ (TruncateNotCompleted /\ pc \in {"truncate", "append"}) =>
          /\ pc = "truncate"
          /\ tries > 1
          /\ truncate_calls = tries - 1

C30_Witness ==
    /\ pc = "append"
    /\ tries = 3
    /\ truncate_calls = 3
    /\ append_calls = 1
    /\ truncate_status = "Completed"

\* ---------------------------------------------------------------------------
\* Termination and attempt bounds of update_feature_services
\* ---------------------------------------------------------------------------
UpdTerminated == pc \in {"done", "raised"}
\* the iteration before the current position of the loop
LastTable == tables[idx - 1]
JustFailed == pc = "loop" /\ idx > 1 /\ fate[LastTable].kind = "ta_failed"
AttemptBounds ==
    /\ truncate_calls <= RETRY_MAX_TRIES + 1
    /\ append_calls <= truncate_calls
    /\ tries <= RETRY_MAX_TRIES + 1
    /\ JustFailed => truncate_calls = RETRY_MAX_TRIES + 1

\* C31: for every batch and every pattern of remote failures
\* update_feature_services comes to an end; for each table truncate and append
\* are each invoked at most RETRY_MAX_TRIES+1 = 4 times, and a table whose
\* update failed in truncate-and-append has had exactly 4 attempts.
C31_TerminatesBounded == []AttemptBounds /\ <>UpdTerminated
C31_Witness ==
    /\ JustFailed
    /\ truncate_calls = 4
    /\ append_calls = 4
    /\ idx <= Len(tables)

\* ---------------------------------------------------------------------------
\* The success signal of the append
\* ---------------------------------------------------------------------------
\* a tuple whose first element is true, or a value that is no tuple and truthy
TupleFirstOrTruthy(r) ==
    \/ r.is_tuple /\ r.first
    \/ ~r.is_tuple /\ r.truthy
FalseTuple == [is_tuple |-> TRUE, first |-> FALSE]
AppendReturned == append_result # NoResult

\* C32: _worker goes on after the append exactly when the append result is a
\* tuple whose first element is true or a truthy value that is no tuple; after
\* any other result, the truthy tuple (False, messages) included, the attempt
\* raises and retry starts the unit again (or gives up after the last try).
C32_AppendSuccessSignal ==
    /\ pc = "verify" => AppendReturned /\ TupleFirstOrTruthy(append_result)
    /\ (pc = "truncate" /\ AppendReturned)
          => tries > 1 /\ ~TupleFirstOrTruthy(append_result)
    /\ (JustFailed /\ AppendReturned) => ~TupleFirstOrTruthy(append_result)
    /\ append_result = FalseTuple
          => \/ pc = "truncate" /\ tries > 1 /\ Len(sleeps) = tries - 1
             \/ /\ idx > 1
                /\ fate[LastTable].kind = "ta_failed"
                /\ tries = RETRY_MAX_TRIES + 1
C32_Witness ==
    /\ pc = "truncate"
    /\ tries = 2
    /\ append_result = FalseTuple
    /\ Truthy(append_result)

\* ---------------------------------------------------------------------------
\* Failed counts of the service rows
\* ---------------------------------------------------------------------------
\* _truncate_and_append has been entered and has made no call yet
UnitEntered == pc = "truncate" /\ truncate_calls = 0 /\ tries = 1
MismatchFor(t) ==
    \E k \in 1..Len(summary.feature_count_mismatches) :
        summary.feature_count_mismatches[k][1] = t
\* error details recorded for the table, by message
UpdateErrorsOf(t) ==
    {summary.update_errors[k][2] :
        k \in {j \in 1..Len(summary.update_errors) : summary.update_errors[j][1] = t}}

\* C33: a count of the service rows that fails gives -1 and does not fail the
\* table: a failed pre-truncate count is followed by the entry of
\* truncate-and-append like a successful one, and after a failed post-append
\* count the table has no zero-features or mismatch finding, and is recorded as
\* updated with its fingerprint handed to set_table_hash; it is listed as
\* errored only when persisting that fingerprint failed.
C33_CountFailureNotFatal ==
    /\ UnitEntered => /\ pre_truncate_count.failed = (pre_truncate_count.value = -1)
                      /\ ~pre_truncate_count.failed => pre_truncate_count.value >= 0
                      /\ ENABLED Truncate
    /\ ~UnitEntered => pre_truncate_count = NoPreCount
    /\ \A t \in BatchTables :
          (AppendedOk(t) /\ fate[t].post = -1) =>
              /\ ~MismatchFor(t)
              /\ UpdateErrorsOf(t) \subseteq {"state store error"}
              /\ t \in SeqToSet(summary.tables_updated)
              /\ HashCalledFor(t)
              /\ fate[t].kind = "updated"
                    => t \notin SeqToSet(summary.tables_with_errors)
\* the first table was updated although its post-append count failed, and
\* truncate-and-append of the second is entered although its pre-truncate count
\* failed
C33_Witness ==
    /\ Len(tables) = 2
    /\ fate[tables[1]].kind = "updated"
    /\ fate[tables[1]].post = -1
    /\ ~has_errors
    /\ UnitEntered
    /\ pre_truncate_count.failed
    /\ pre_truncate_count.value = -1

\* ---------------------------------------------------------------------------
\* Terminal outcome of a table in the run summary
\* ---------------------------------------------------------------------------
ListedUpdated(t) == t \in SeqToSet(summary.tables_updated)
ListedErrored(t) == t \in SeqToSet(summary.tables_with_errors)

\* C34: a table processed by update_feature_services ends in one terminal
\* outcome: no table is both in tables_updated and in tables_with_errors of the
\* run summary.
C34_OneTerminalOutcome ==
    \A t \in BatchTables : ~(ListedUpdated(t) /\ ListedErrored(t))

\* ---------------------------------------------------------------------------
\* The service after a failed update
\* ---------------------------------------------------------------------------
\* C35: when _truncate_and_append fails after the last retry, the service holds
\* the rows it held when the update started: none of them removed and no row
\* of the package added.
C35_FailedUpdateLeavesRows ==
    t_pc = "raised" => t_rows = [old |-> t_before, new |-> 0]

\* ---------------------------------------------------------------------------
\* Fingerprint and registry entry of a newly published table
\* ---------------------------------------------------------------------------
PubEnded == p_pc \in {"done", "raised"}
\* set_table_hash stored the fingerprint of the table in this call
FingerprintPersisted(t) ==
    /\ is_running_in_gcp(env)
    /\ p_fate[t].record \in {"done", "registry_raised"}
    /\ t \in DOMAIN firestore
    /\ firestore[t] = current_hashes[t]

\* update_agol_item wrote the new item id of the table to the registry
Registered(t) ==
    /\ env = "prod"
    /\ p_fate[t].record = "done"
    /\ registry[t] = NewItemId(t)

\* C36: at the end of publish_new_feature_services every table whose new
\* fingerprint was persisted has its new item id in the registry, also when
\* update_agol_item failed, and after a failure of update_agol_item for one
\* table the later tables of the list are still processed.
C36_PersistedImpliesRegistered ==
    PubEnded =>
        /\ \A t \in PubTables : FingerprintPersisted(t) => Registered(t)
        /\ \A i \in 1..Len(p_tables) :
              p_fate[p_tables[i]].record = "registry_raised"
                  => \A k \in (i + 1)..Len(p_tables) : p_fate[p_tables[k]] # PPending

\* ---------------------------------------------------------------------------
\* An exception while the remote item of a table is resolved
\* ---------------------------------------------------------------------------
\* C37: when resolving the remote item of a table raises (the retried
\* content.get failed for the last time, or the table is missing from the
\* lookup), the exception is recorded as the update error of that table, the
\* temporary package is kept, and the later tables of the batch are processed.
C37_ItemResolutionErrorRecorded ==
    \A i \in 1..Len(tables) :
        fate[tables[i]].kind = "get_raised" =>
            /\ UpdateErrorFor(tables[i])
            /\ ListedErrored(tables[i])
            /\ ~gdb.delete_called
            /\ Finished => \A j \in (i + 1)..Len(tables) : fate[tables[j]].kind # "pending"

\* ---------------------------------------------------------------------------
\* Findings and the cleanup decision
\* ---------------------------------------------------------------------------
\* the loop is over and the cleanup decision has been taken
CleanupDecided == Finished /\ idx > Len(tables)
Flagged(t) == AppendedOk(t) /\ (fate[t].post = 0 \/ MismatchFor(t))

C39_ErroredTableHasDetail ==
    \A t \in SeqToSet(summary.tables_with_errors) :
        UpdateErrorFor(t) \/ PublishErrorFor(t)

\* ---------------------------------------------------------------------------
\* Builder and publisher on non-spatial tables
\* ---------------------------------------------------------------------------
\* C40: for every geometry classification, in any letter casing,
\* _get_appropriate_service_layer opens the service as a Table exactly when
\* _get_geometry_option translated the classification to NONE, and as a
\* FeatureLayer otherwise.
C40_BuilderPublisherAgree ==
    (g_pc = "done" /\ g_layer # "none") =>
        /\ (g_layer = "Table") = (g_out = [ret |-> NONE])
        /\ (g_layer = "FeatureLayer") = (g_out # [ret |-> NONE])
====
